---------------------------- MODULE Spec2Model ----------------------------
(***************************************************************************)
(* Model of rcc's conda environment workflow (conda/workflows.go) and of   *)
(* the file lock it runs under (pathlib/lock_unix.go).                     *)
(*                                                                         *)
(* Spec         : processes calling NewEnvironment on one ROBOCORP_HOME    *)
(*                and one environment key.                                 *)
(* SpecCall     : one call of NewEnvironment, with its history.            *)
(* SpecBuild    : one call, with the history of its build attempts.        *)
(* SpecObserver : InstallObserver fed chunk by chunk, then HasFailures.    *)
(* SpecWait     : Spec with the clock of the callers blocked in flock.     *)
(* SpecLock     : Locker and Release of the releasers it gave.             *)
(* SpecNotifier : the waiting messages of LockWaitMessage.                 *)
(* SpecRemove   : renameRemove, system call by system call.                *)
(* SpecCopy     : copyFolder and its workers on one folder.                *)
(* SpecIdentity : UserHomeIdentity on one home directory.                  *)
(* SpecFair, SpecCopyLive, SpecNotifierLive : Spec (of the callers that    *)
(*                take the lock), SpecCopy and SpecNotifier under fair     *)
(*                scheduling.                                              *)
(***************************************************************************)
EXTENDS Integers, Sequences, FiniteSets, TLC

(***************************************************************************)
(* Bounds of the model.                                                    *)
(***************************************************************************)
NumProcs == 2
MaxCalls == 2
\* The milliseconds one step of the clock takes.
TickMillis == 15000
MaxDetailCalls == 1
MaxLocklessCalls == 1
MaxCopyFailures == 1
MaxChunks == 3
MaxLockerCalls == 2
MaxReleases == 2
MaxSeconds == 1
MaxMessages == 3
NumWorkers == 2
MaxLate == 1

Procs == 1..NumProcs
NoProc == 0

(***************************************************************************)
(* Folders, .meta sidecars and digests.                                    *)
(*   A folder is absent or a directory holding a set of entries.           *)
(*   "bin" the files the solver, the installer and the activation wrote,   *)
(*   "pyc" a __pycache__ entry, "id" identity.yaml, "x" a file changed by  *)
(*   someone else.  A .meta is <<>> (no file) or <<text>>.                 *)
(***************************************************************************)
Entries == {"bin", "pyc", "id", "x"}
NoDir == [dir |-> FALSE, files |-> {}]
Dir(fs) == [dir |-> TRUE, files |-> fs]
NoMeta == << >>

IsDir(folder) == folder.dir

IsFile(meta) == Len(meta) > 0

\* The tree walk of the digest leaves out __pycache__; an absent folder
\* cannot be opened.
DigestFor(folder) ==
    IF folder.dir THEN [err |-> FALSE, sum |-> folder.files \ {"pyc"}]
                  ELSE [err |-> TRUE, sum |-> {}]

Hexdigest(raw) == <<"hex", raw>>

metaLoad(meta) ==
    IF IsFile(meta) THEN [err |-> FALSE, text |-> meta[1]]
                    ELSE [err |-> TRUE, text |-> <<"hex", {}>>]

IsPristine(folder, meta) ==
    IF DigestFor(folder).err THEN FALSE
    ELSE IF metaLoad(meta).err THEN FALSE
    ELSE Hexdigest(DigestFor(folder).sum) = metaLoad(meta).text

\* Variant: the .meta is written in stage-only mode too.
metaSaveAlways(stageonly, old, data, written) ==
    IF written THEN [meta |-> <<data>>, err |-> FALSE]
    ELSE [meta |-> old, err |-> TRUE]

\* metaSave writes nothing in stage-only mode; written: ioutil.WriteFile
\* succeeds.
metaSave(stageonly, old, data, written) ==
    IF stageonly THEN [meta |-> old, err |-> FALSE]
    ELSE IF written THEN [meta |-> <<data>>, err |-> FALSE]
    ELSE [meta |-> old, err |-> TRUE]

(***************************************************************************)
(* renameRemove(location): the outcome is decided by the file system.      *)
(*   "ok"      everything worked                                           *)
(*   "rename"  os.Rename failed: nothing changed                           *)
(*   "remove"  os.RemoveAll of the renamed folder failed: the location is  *)
(*             gone, the .meta is still there                              *)
(*   "meta"    os.Remove of the .meta failed                               *)
(***************************************************************************)
FsOutcomes == {"ok", "rename", "remove", "meta"}

\* Variant: the .meta is never removed.
renameRemoveKeepsMeta(folder, meta, fs) ==
    IF ~IsDir(folder) THEN [folder |-> folder, meta |-> meta, err |-> FALSE]
    ELSE IF fs = "rename" THEN [folder |-> folder, meta |-> meta, err |-> TRUE]
    ELSE [folder |-> NoDir, meta |-> meta, err |-> fs = "remove"]

renameRemove(folder, meta, fs) ==
    IF ~IsDir(folder) THEN [folder |-> folder, meta |-> meta, err |-> FALSE]
    ELSE IF fs = "rename" THEN [folder |-> folder, meta |-> meta, err |-> TRUE]
    ELSE IF fs = "remove" THEN [folder |-> NoDir, meta |-> meta, err |-> TRUE]
    ELSE IF ~IsFile(meta) THEN [folder |-> NoDir, meta |-> meta, err |-> FALSE]
    ELSE IF fs = "meta" THEN [folder |-> NoDir, meta |-> meta, err |-> TRUE]
    ELSE [folder |-> NoDir, meta |-> NoMeta, err |-> FALSE]


(***************************************************************************)
(* InstallObserver.  A text is a sequence of characters; the three signals *)
(* are abbreviated: "safetyerror:" to s e, "pkgs" to p k, "appears to be   *)
(* corrupted" to a c.  Upper-case letters stand for text that differs from *)
(* a signal in case only.  The observer is a Go map whose only values are  *)
(* true: it is modelled as the set of its keys.                            *)
(***************************************************************************)
SigSafetyerror == <<"s", "e">>
SigPkgs == <<"p", "k">>
SigCorrupted == <<"a", "c">>

LowerOf(ch) ==
    CASE ch = "S" -> "s"
      [] ch = "E" -> "e"
      [] ch = "P" -> "p"
      [] ch = "A" -> "a"
      [] OTHER -> ch

ToLower(text) == [i \in 1..Len(text) |-> LowerOf(text[i])]

Contains(text, pat) ==
    \E i \in 1..(Len(text) - Len(pat) + 1) :
        \A j \in 1..Len(pat) : text[i + j - 1] = pat[j]

WriteFlags(content) ==
    LET text == ToLower(content)
    IN  (IF Contains(text, SigSafetyerror) THEN {"safetyerror"} ELSE {})
        \cup (IF Contains(text, SigPkgs) THEN {"pkgs"} ELSE {})
        \cup (IF Contains(text, SigCorrupted) THEN {"corrupted"} ELSE {})

\* Variant: a Write forgets the flags set before it.
WriteOverwrites(it, content) ==
    [map |-> WriteFlags(content), n |-> Len(content), err |-> FALSE]

Write(it, content) ==
    [map |-> it \cup WriteFlags(content), n |-> Len(content), err |-> FALSE]

\* Variant: two flags are enough.
HasFailuresAny(it) == "safetyerror" \in it /\ "corrupted" \in it /\ Cardinality(it) > 1

HasFailures(it) == "safetyerror" \in it /\ "corrupted" \in it /\ Cardinality(it) > 2

RECURSIVE Observe(_, _)
\* The observer after a whole stream of chunks went through the tee.
Observe(it, chunks) ==
    IF chunks = << >> THEN it
    ELSE Observe(Write(it, Head(chunks)).map, Tail(chunks))

ChunkTexts ==
    { << >>, <<"z">>, <<"s">>, <<"e">>, <<"s", "e">>, <<"S", "E">>, <<"p", "k">>,
      <<"a", "c">>, <<"s", "e", "z", "P", "k">>, <<"s", "e", "p", "k", "A", "c">> }

RECURSIVE StreamsUpTo(_)
StreamsUpTo(n) ==
    IF n = 0 THEN { << >> }
    ELSE StreamsUpTo(n - 1)
         \cup { Append(st, ch) : st \in { s \in StreamsUpTo(n - 1) : Len(s) = n - 1 },
                                 ch \in ChunkTexts }

\* What the solver prints during one run, as the chunks the tee receives.
SolverStreams ==
    { << >>,
      << <<"s", "e", "p", "k", "A", "c">> >>,
      << <<"S", "E">>, <<"p", "k">>, <<"a", "c">> >>,
      << <<"s", "e">>, <<"a", "c">> >>,
      << <<"s">>, <<"e">>, <<"p", "k">>, <<"a", "c">> >> }


(***************************************************************************)
(* The lock file and the PID markers.  A marker name carries the time of   *)
(* the acquisition (in seconds) and the process id; the lock file holds    *)
(* the marker name last written into it, or nothing once truncated.        *)
(***************************************************************************)
\* lockPidFilename (part_001 lines 68-78): timestamp and pid tell the names
\* of one lock file apart.
lockPidFilename(p, time) == <<time, p>>

NoLockfile == [exists |-> FALSE, text |-> {}]

\* os.OpenFile with O_WRONLY|O_CREATE|O_TRUNC (lock_unix.go line 26).
Truncated == [exists |-> TRUE, text |-> {}]

\* file.Write([]byte(marker)) at the start of the file (line 39).
Written(file, marker) == [exists |-> TRUE, text |-> {marker}]

\* The marker of a process that ran before the ones looked at.
EarlierMarker == lockPidFilename(NoProc, 0)

\* A call of Locker or Release seen step by step, and the releasers the
\* process got: at is "out", "flock" (blocked in syscall.Flock) or
\* "unmark" (in Release, before os.Remove of the marker).
\* which: the releaser Release runs on; again: it was released before;
\* err: what the last call returned; calls: the Locker calls so far.
Lk0 == [lockless |-> FALSE, at |-> "out", held |-> << >>, which |-> 0,
        again |-> FALSE, err |-> FALSE, calls |-> 0]

\* One renameRemove(location): where it is ("start", "rename", "remove",
\* "meta", "done"), the folder at the location and its .meta, the folder at
\* the random name, the error returned, and what it was called on.
\* No call of UserHomeIdentity.
NoIdentity == [panic |-> FALSE, text |-> << >>]

Ident0 == [at |-> "done", unmanaged |-> FALSE, homeerr |-> FALSE, hash |-> << >>,
           out |-> NoIdentity]

Rm0 == [at |-> "done", location |-> NoDir, meta |-> NoMeta, random |-> NoDir,
        err |-> FALSE, fs |-> "ok", location0 |-> NoDir, meta0 |-> NoMeta]

\* One cloneFolder: the entries of the source, those still to dispatch, the
\* task of each worker, how often an entry was sent, the copier calls and
\* the links made so far, the entries whose os.Readlink or os.Symlink
\* failed, the target directories made, the directories that could not be
\* listed, whether the queue is closed and the workers that are done.
Cp0 == [source |-> << >>, todo |-> {}, task |-> << >>, handed |-> << >>,
        copied |-> << >>, linked |-> << >>, misread |-> {}, unlinked |-> {},
        made |-> {}, unread |-> {}, closed |-> TRUE, done |-> {}]

\* waitingLockNotification: its locals, the seconds since the last message
\* (or since its start), the messages logged and whether it is in the body
\* of the timer case; cancel: where the caller of the function returned by
\* LockWaitMessage is ("no": not called, "sending": blocked in latch <-
\* true, "returned"); lockerr: whether Locker had returned an error.
Notif0 == [on |-> FALSE, delay |-> 0, counter |-> 0, since |-> 0, log |-> << >>,
           busy |-> FALSE, cancel |-> "no", lockerr |-> FALSE]

(***************************************************************************)
(* The state.                                                              *)
(*   scope     what is looked at: the processes that call NewEnvironment,  *)
(*             the number of calls, and the history kept of a call:        *)
(*             "none", "call" (its steps, its attempts in short, its       *)
(*             CloneFromTo) or "attempt" (the last attempt in full too)    *)
(*   cfg       the process-wide flags: lockless, stageonly, liveonly       *)
(*   flock     the process whose descriptor holds the OS lock (or NoProc)  *)
(*   markers   the PID marker files that exist under hololib/pids          *)
(*   lockfile  the lock file: whether it exists and the marker name in it  *)
(*   lk, now, notif   Locker and Release step by step, the clock of the    *)
(*             marker names, and the notifier of a waiting caller          *)
(*   rm, cp    one renameRemove and one cloneFolder, step by step          *)
(*   ident     one call of UserHomeIdentity: its inputs and what it gave   *)
(*   live, liveMeta, tmpl, tmplMeta   the live folder and the template of  *)
(*             the key, each with its .meta                                *)
(*   planfile, finalplan   <live>.plan and the permanent plan exist        *)
(*   stats     the stats.env.* counters of the settings store              *)
(*   pc, loc   each process's place in NewEnvironment and its Go locals    *)
(*   gh        per call: what the call found and has done so far (history) *)
(*   ret       what the last call of the process returned                  *)
(*   ncalls    calls started so far                                        *)
(*   clone     the last CloneFromTo: its inputs and its result             *)
(*   obsMap, obsRest, obsRet, obsPrev, obsSeen, obsVerdict                 *)
(*             the observer, the chunks still to come, the last Write      *)
(***************************************************************************)
VARIABLES scope, cfg, flock, markers, lockfile, lk, now, notif, rm, cp, ident, live, liveMeta, tmpl, tmplMeta, planfile,
          finalplan, stats, pc, loc, gh, ret, ncalls, clone,
          obsMap, obsRest, obsRet, obsPrev, obsSeen, obsVerdict

fsVars == <<live, liveMeta, tmpl, tmplMeta, planfile, finalplan>>
lockVars == <<flock, markers, lockfile>>
stepVars == <<rm, cp, ident>>
unitVars == <<lk, now, notif, stepVars>>
obsVars == <<obsMap, obsRest, obsRet, obsPrev, obsSeen, obsVerdict>>
procVars == <<pc, loc, gh, ret, ncalls>>
vars == <<scope, cfg, unitVars, lockVars, fsVars, stats, procVars, clone, obsVars>>

(***************************************************************************)
(* CloneFromTo(source, target).  ch holds what the file system decides:    *)
(* fs1, fs2, fs3 the outcomes of the three renameRemove calls, open        *)
(* whether the source folder can be opened and listed, lost the entries    *)
(* whose copy failed (a worker only logs that), save whether the .meta of  *)
(* the target can be written (the error of metaSave is dropped).           *)
(***************************************************************************)
CloneChoices(source) ==
    { [fs1 |-> a, fs2 |-> b, fs3 |-> c, open |-> o, lost |-> l, save |-> w] :
        a \in FsOutcomes, b \in FsOutcomes, c \in FsOutcomes, o \in BOOLEAN,
        w \in BOOLEAN,
        l \in { x \in SUBSET (source.files \ {"pyc"}) :
                    Cardinality(x) <= MaxCopyFailures } }

\* copyFolder and the workers: every entry but __pycache__ is dispatched.
cloneFolder(source, lost) == Dir((source.files \ {"pyc"}) \ lost)

\* at: the place CloneFromTo returned from: "target" (line 530), "dirty"
\* (lines 540, 544), "nometa" (549), "open" (555, 558), "digest" (570, 572),
\* "done" (577).
CloneResult(ok, err, s, sm, t, tm, cloned, sum, at) ==
    [ok |-> ok, err |-> err, source |-> s, sourceMeta |-> sm, target |-> t,
     targetMeta |-> tm, cloned |-> cloned, sum |-> sum, at |-> at]

\* Variant: a source that is not pristine is removed with live-only too.
SourceKeptNever(liveonly) == FALSE

\* if common.Liveonly (line 535).
SourceKept(liveonly) == liveonly

\* Variant: the clone is accepted without the digest check.
CloneFromToUnchecked(source, sourceMeta, target, targetMeta, liveonly, stageonly, ch) ==
    LET r1 == renameRemove(target, targetMeta, ch.fs1)
        copied == cloneFolder(source, ch.lost)
    IN  IF r1.err THEN
            CloneResult(FALSE, TRUE, source, sourceMeta, r1.folder, r1.meta, FALSE, {},
                        "target")
        ELSE IF ~IsPristine(source, sourceMeta) THEN
            CloneResult(FALSE, FALSE, source, sourceMeta, Dir({}), r1.meta, FALSE, {},
                        "dirty")
        ELSE
            CloneResult(TRUE, FALSE, source, sourceMeta, copied,
                        metaSave(stageonly, r1.meta, metaLoad(sourceMeta).text,
                                 ch.save).meta,
                        TRUE, DigestFor(copied).sum, "done")

CloneFromTo(source, sourceMeta, target, targetMeta, liveonly, stageonly, ch) ==
    LET r1 == renameRemove(target, targetMeta, ch.fs1)
        made == Dir({})
        r2 == renameRemove(source, sourceMeta, ch.fs2)
        expected == metaLoad(sourceMeta)
        copied == cloneFolder(source, ch.lost)
        digest == DigestFor(copied)
        r3a == renameRemove(made, r1.meta, ch.fs3)
        r3b == renameRemove(copied, r1.meta, ch.fs3)
    IN  IF r1.err THEN
            CloneResult(FALSE, TRUE, source, sourceMeta, r1.folder, r1.meta, FALSE, {},
                        "target")
        ELSE IF ~IsPristine(source, sourceMeta) THEN
            IF SourceKept(liveonly) THEN
                CloneResult(FALSE, FALSE, source, sourceMeta, made, r1.meta, FALSE, {},
                            "dirty")
            ELSE
                CloneResult(FALSE, r2.err, r2.folder, r2.meta, made, r1.meta, FALSE, {},
                            "dirty")
        ELSE IF expected.err THEN
            CloneResult(FALSE, FALSE, source, sourceMeta, made, r1.meta, FALSE, {},
                        "nometa")
        ELSE IF ~ch.open THEN
            CloneResult(FALSE, r3a.err, source, sourceMeta, r3a.folder, r3a.meta, FALSE, {},
                        "open")
        ELSE IF digest.err \/ Hexdigest(digest.sum) # expected.text THEN
            CloneResult(FALSE, r3b.err, source, sourceMeta, r3b.folder, r3b.meta,
                        TRUE, digest.sum, "digest")
        ELSE
            CloneResult(TRUE, FALSE, source, sourceMeta, copied,
                        metaSave(stageonly, r1.meta, expected.text, ch.save).meta,
                        TRUE, digest.sum, "done")


(***************************************************************************)
(* newLiveInternal: one build attempt.  The result set holds one record    *)
(* per way the attempt can go: what the solver, the installer, the         *)
(* post-install scripts and the file system decide.  rec is the history of *)
(* the attempt: what was invoked and how far it came.                      *)
(*   req    the requirements file: "missing", "empty" or "some"            *)
(*   posts  the number of post-install scripts                             *)
(***************************************************************************)
TtlDefault == 57600
TtlForced == 0

RepodataTtl(force) == IF force THEN TtlForced ELSE TtlDefault

\* posts: the post-install commands LiveExecution was called for, in the
\* order of the calls; postFailed: the command the loop stopped at (0: none).
AttemptRec(force, debug) ==
    [force |-> force, ttl |-> RepodataTtl(force), debug |-> debug,
     req |-> "missing", declared |-> 0,
     start |-> NoDir, solver |-> FALSE, code |-> 0, flags |-> {}, unsafe |-> FALSE,
     pip |-> FALSE, pipUsed |-> FALSE, posts |-> << >>, postFailed |-> 0,
     act |-> FALSE, marker |-> FALSE, meta |-> FALSE, plan |-> "none"]

AttemptResult(ok, fatal, folder, meta, final, rec) ==
    [ok |-> ok, fatal |-> fatal, live |-> folder, liveMeta |-> meta,
     finalplan |-> final, plan |-> rec.plan, rec |-> rec]

\* Variant: the deferred function leaves the plan file where it is.
closePlanKeeps(renamed) == IF renamed THEN "final" ELSE "kept"

\* The deferred function of newLiveInternal (lines 185-192) after the
\* os.Rename of line 284, whose error is dropped, did or did not move the
\* plan file away: a file that is still there is logged and removed.
closePlan(renamed) == IF renamed THEN "final" ELSE "removed"

\* Whether <target>.plan exists after an attempt; before: whether it did
\* when the attempt could not open it (lines 181-184).
PlanLeft(plan, before) == IF plan = "none" THEN before ELSE plan = "kept"

SolverFlags == { Observe({}, st) : st \in SolverStreams }

\* What a command line does: "ok", "parse" (shlex.Split fails), "start"
\* (livePrepare finds no such command), "exit" (it ends unsuccessfully).
PostOutcomes == {"ok", "parse", "start", "exit"}

\* Task.Tracked: an error is returned when the command ends unsuccessfully.
Tracked(outcome) == [code |-> IF outcome = "exit" THEN 1 ELSE 0, err |-> outcome = "exit"]

LiveExecution(outcome) ==
    IF outcome = "start" THEN [code |-> 0, err |-> TRUE] ELSE Tracked(outcome)

RECURSIVE postInstallGoesOn(_, _, _)
\* Variant: the loop goes on after a failure.
postInstallGoesOn(k, n, out) ==
    IF k > n THEN [ran |-> << >>, failed |-> 0]
    ELSE LET rest == postInstallGoesOn(k + 1, n, out)
         IN  [ran |-> (IF out[k] = "parse" THEN << >> ELSE <<k>>) \o rest.ran,
              failed |-> IF out[k] # "ok" THEN k ELSE rest.failed]

RECURSIVE postInstall(_, _, _)
\* The post-install loop (lines 251-265) from command k on: the commands
\* LiveExecution was called for and the command the loop returned at.
postInstall(k, n, out) ==
    IF k > n THEN [ran |-> << >>, failed |-> 0]
    ELSE IF out[k] = "parse" THEN [ran |-> << >>, failed |-> k]
    ELSE IF LiveExecution(out[k]).err THEN [ran |-> <<k>>, failed |-> k]
    ELSE LET rest == postInstall(k + 1, n, out)
         IN  [rest EXCEPT !.ran = <<k>> \o @]

\* The stages after the installer: post-install scripts, activation,
\* the identity marker, the digest and the .meta.
AfterPip(folder, meta, final, rec, posts, stageonly) ==
    LET loops == { postInstall(1, posts, out) : out \in [1..posts -> PostOutcomes] }
        failing == { AttemptResult(FALSE, FALSE, folder, meta, final,
                                   [rec EXCEPT !.posts = l.ran, !.postFailed = l.failed,
                                               !.plan = closePlan(FALSE)]) :
                       l \in { x \in loops : x.failed # 0 } }
        ran(renamed) == [rec EXCEPT !.posts = [i \in 1..posts |-> i],
                                    !.plan = closePlan(renamed)]
        moved(renamed) == IF renamed THEN TRUE ELSE final
        activated(a) == folder
        marked(a) == Dir(activated(a).files \cup {"id"})
        sum(a) == Hexdigest(DigestFor(marked(a)).sum)
        finishing ==
            UNION { { AttemptResult(FALSE, FALSE, activated(a), meta, moved(renamed),
                                    [ran(renamed) EXCEPT !.act = a]),
                      AttemptResult(FALSE, FALSE, marked(a), meta, moved(renamed),
                                    [ran(renamed) EXCEPT !.act = a, !.marker = TRUE]),
                      AttemptResult(TRUE, FALSE, marked(a),
                                    metaSave(stageonly, meta, sum(a), TRUE).meta,
                                    moved(renamed),
                                    [ran(renamed) EXCEPT !.act = a, !.marker = TRUE,
                                                         !.meta = ~stageonly]) } :
                    a \in BOOLEAN, renamed \in BOOLEAN }
    IN  failing \cup finishing

\* Variant: the installer runs whenever the requirements file exists.
PipWantedExists(req) == req # "missing"

\* pathlib.Size of the requirements file (lines 224-225): the installer
\* runs when the file exists and is not empty.
PipWanted(req) == req = "some"

newLiveInternal(folder, meta, final, force, debug, req, posts, stageonly) ==
    LET rec0 == [AttemptRec(force, debug) EXCEPT !.start = folder, !.req = req,
                                                !.declared = posts]
        planFailed == { AttemptResult(FALSE, FALSE, folder, meta, final, rec0) }
        solved(flags, code) ==
            [rec0 EXCEPT !.solver = TRUE, !.flags = flags, !.code = code]
        solverFailed ==
            { AttemptResult(FALSE, FALSE, left, meta, final,
                            [solved(fl, 1) EXCEPT !.plan = closePlan(FALSE)]) :
                left \in {folder, Dir({"bin"})}, fl \in SolverFlags }
        staged == Dir({"bin", "pyc"})
        unsafe(fl) ==
            { AttemptResult(FALSE, TRUE, renameRemove(staged, meta, fs).folder,
                            renameRemove(staged, meta, fs).meta, final,
                            [solved(fl, 0) EXCEPT !.unsafe = TRUE, !.plan = closePlan(FALSE)]) :
                fs \in FsOutcomes }
        pipFailed(fl) ==
            { AttemptResult(FALSE, FALSE, staged, meta, final,
                            [solved(fl, 0) EXCEPT !.pip = TRUE, !.plan = closePlan(FALSE)]) }
        safe(fl) ==
            IF PipWanted(req)
            THEN pipFailed(fl)
                 \cup AfterPip(staged, meta, final,
                               [solved(fl, 0) EXCEPT !.pip = TRUE, !.pipUsed = TRUE],
                               posts, stageonly)
            ELSE AfterPip(staged, meta, final, solved(fl, 0), posts, stageonly)
        solverDone ==
            UNION { IF HasFailures(fl) THEN unsafe(fl) ELSE safe(fl) : fl \in SolverFlags }
    IN  planFailed \cup solverFailed \cup solverDone


(***************************************************************************)
(* Initial states: a fresh ROBOCORP_HOME, or one in which an earlier run   *)
(* built the environment of the key; every process before its call.        *)
(***************************************************************************)
\* UnifyStageHandling: staging implies live-only.
UnifyStageHandling(c) == IF c.stageonly THEN [c EXCEPT !.liveonly = TRUE] ELSE c

\* The flags the workflow runs under; NoBuild is off.
Configurations ==
    { UnifyStageHandling([lockless |-> a, stageonly |-> b, liveonly |-> c,
                          nobuild |-> FALSE]) :
        a \in BOOLEAN, b \in BOOLEAN, c \in BOOLEAN }

\* The same with common.NoBuild (part_000 line 53) on or off.
NoBuildConfigurations ==
    { [c EXCEPT !.nobuild = d] : c \in Configurations, d \in BOOLEAN }

ZeroStats ==
    [request |-> 0, hit |-> 0, dirty |-> 0, miss |-> 0, failures |-> 0, merges |-> 0]

Built == Dir({"bin", "pyc", "id"})
BuiltMeta == <<Hexdigest(DigestFor(Built).sum)>>

\* The locals of a call; waited: the milliseconds the call has spent blocked
\* in syscall.Flock.
Locals0 ==
    [force |-> FALSE, locked |-> "none", marker |-> EarlierMarker, waited |-> 0, requests |-> 0, hits |-> 0, dirty |-> 0,
     misses |-> 0, failures |-> 0, merges |-> 0, freshInstall |-> FALSE,
     req |-> "missing", posts |-> 0, success |-> FALSE]

\* What a call found: the folders and the counters when it was entered.
Pre0 ==
    [live |-> NoDir, liveMeta |-> NoMeta, tmpl |-> NoDir, tmplMeta |-> NoMeta,
     stats |-> ZeroStats, markers |-> {}, lockfile |-> NoLockfile, flock |-> NoProc]

History0 ==
    [rel |-> 0, ops |-> {}, att |-> << >>, last |-> AttemptRec(FALSE, FALSE),
     pre |-> Pre0]

Ret0 == [how |-> "none", path |-> "", err |-> FALSE]

Clone0 == [ran |-> FALSE, liveonly |-> FALSE, stageonly |-> FALSE,
           source |-> NoDir, sourceMeta |-> NoMeta, target |-> NoDir,
           targetMeta |-> NoMeta,
           out |-> CloneResult(FALSE, FALSE, NoDir, NoMeta, NoDir, NoMeta, FALSE, {},
                              "none")]

ObsIdle ==
    /\ obsMap = {}
    /\ obsRest = << >>
    /\ obsRet = [n |-> 0, err |-> FALSE]
    /\ obsPrev = {}
    /\ obsSeen = << >>
    /\ obsVerdict = "none"

StepsIdle ==
    /\ rm = Rm0
    /\ cp = Cp0
    /\ ident = Ident0

UnitsIdle ==
    /\ lk = [p \in Procs |-> Lk0]
    /\ now = 0
    /\ notif = Notif0
    /\ StepsIdle

ProcsIdle ==
    /\ UnitsIdle
    /\ flock = NoProc
    /\ markers = {}
    /\ pc = [p \in Procs |-> "idle"]
    /\ loc = [p \in Procs |-> Locals0]
    /\ gh = [p \in Procs |-> History0]
    /\ ret = [p \in Procs |-> Ret0]
    /\ ncalls = 0
    /\ clone = Clone0

FreshHome ==
    /\ lockfile = NoLockfile
    /\ live = NoDir /\ liveMeta = NoMeta
    /\ tmpl = NoDir /\ tmplMeta = NoMeta
    /\ finalplan = FALSE
    /\ stats = ZeroStats
    /\ planfile = FALSE

BuiltHome ==
    /\ lockfile = Written(Truncated, EarlierMarker)
    /\ live = Built /\ liveMeta = BuiltMeta
    /\ tmpl = cloneFolder(Built, {}) /\ tmplMeta = BuiltMeta
    /\ finalplan = TRUE
    /\ stats = [ZeroStats EXCEPT !.request = 1, !.miss = 1]
    /\ planfile = FALSE

Home(configurations) ==
    /\ cfg \in configurations
    /\ FreshHome \/ BuiltHome
    /\ ProcsIdle
    /\ ObsIdle

HomeInit == Home(Configurations)

\* Every process may call on a fresh home; no history is kept.  With the
\* lock the processes make MaxCalls calls, lockless MaxLocklessCalls.
Init ==
    /\ cfg \in Configurations
    /\ scope = [procs |-> Procs, detail |-> "none",
                calls |-> IF cfg.lockless THEN MaxLocklessCalls ELSE MaxCalls]
    /\ FreshHome
    /\ ProcsIdle
    /\ ObsIdle

\* One process calls; the history of each call is kept.
InitCall ==
    /\ scope = [procs |-> {1}, detail |-> "call", calls |-> MaxDetailCalls]
    /\ Home(NoBuildConfigurations)

\* One process calls; the history of each attempt is kept in full.
InitBuild ==
    /\ scope = [procs |-> {1}, detail |-> "attempt", calls |-> MaxDetailCalls]
    /\ HomeInit

(***************************************************************************)
(* NewEnvironment, step by step.                                           *)
(***************************************************************************)
Goto(p, where) == pc' = [pc EXCEPT ![p] = where]

Did(p, what) ==
    gh' = IF scope.detail # "none" THEN [gh EXCEPT ![p].ops = @ \cup what] ELSE gh

\* An attempt in short.
Short(r) ==
    [force |-> r.rec.force, ttl |-> r.rec.ttl, debug |-> r.rec.debug,
     start |-> r.rec.start, ok |-> r.ok, fatal |-> r.fatal]

DidAttempt(p, what, r) ==
    gh' = IF scope.detail = "none" THEN gh
          ELSE [gh EXCEPT ![p].ops = @ \cup what,
                          ![p].att = Append(@, Short(r)),
                          ![p].last = IF scope.detail = "attempt" THEN r.rec ELSE @]

\* Variant: a return statement that skips the deferred calls.
LeaveAtOnce(p, how, path, err) ==
    /\ ret' = [ret EXCEPT ![p] = Ret0]
    /\ pc' = [pc EXCEPT ![p] = "idle"]

\* A return statement of NewEnvironment: the deferred calls run in the
\* step Return.
Leave(p, how, path, err) ==
    /\ ret' = [ret EXCEPT ![p] = [how |-> how, path |-> path, err |-> err]]
    /\ pc' = [pc EXCEPT ![p] = "ret"]

\* NewEnvironment is entered (lines 353-358).
Call(p) ==
    /\ pc[p] = "idle"
    /\ p \in scope.procs
    /\ ncalls < scope.calls
    /\ ncalls' = ncalls + 1
    /\ \E force \in BOOLEAN : loc' = [loc EXCEPT ![p] = [Locals0 EXCEPT !.force = force]]
    /\ gh' = [gh EXCEPT ![p] =
                 IF scope.detail = "none" THEN History0
                 ELSE [History0 EXCEPT !.pre = [live |-> live, liveMeta |-> liveMeta,
                                                tmpl |-> tmpl, tmplMeta |-> tmplMeta,
                                                stats |-> stats, markers |-> markers,
                                                lockfile |-> lockfile,
                                                flock |-> flock]]]
    /\ clone' = Clone0
    /\ Goto(p, "open")
    /\ UNCHANGED <<scope, cfg, unitVars, lockVars, fsVars, stats, ret, obsVars>>

\* Locker up to the flock call: lockless mode, or the lock file is opened
\* and truncated.  An error (of EnsureSharedParentDirectory or os.OpenFile
\* before the file is opened, of MakeSharedFile after) makes NewEnvironment
\* return before its defer is registered.
LockerOpen(p) ==
    /\ pc[p] = "open"
    /\ \/ /\ cfg.lockless
          /\ loc' = [loc EXCEPT ![p].locked = "fake"]
          /\ Goto(p, "stats")
          /\ UNCHANGED ret
          /\ UNCHANGED lockfile
       \/ /\ ~cfg.lockless
          /\ lockfile' = Truncated
          /\ Goto(p, "flock")
          /\ UNCHANGED <<loc, ret>>
       \/ /\ ~cfg.lockless
          /\ \E opened \in BOOLEAN : lockfile' = IF opened THEN Truncated ELSE lockfile
          /\ Leave(p, "lockerr", "", TRUE)
          /\ UNCHANGED loc
    /\ UNCHANGED <<scope, cfg, unitVars, flock, markers, fsVars, stats, gh, ncalls, clone,
                   obsVars>>

\* Variant: flock never waits.
FlockGrantedAlways(owner) == TRUE

\* Variant: flock never returns.
FlockGrantedNever(owner) == FALSE

\* flock(LOCK_EX) returns once no other descriptor holds the lock.
FlockGranted(owner) == owner = NoProc

\* syscall.Flock, then the marker (lines 34-45).  A failed write of the
\* marker name returns the error with the lock taken and never released
\* by the caller.
LockerFlock(p) ==
    /\ pc[p] = "flock"
    /\ FlockGranted(flock)
    /\ \/ /\ flock' = p
          /\ lockfile' = Written(lockfile, lockPidFilename(p, now))
          /\ markers' = markers \cup {lockPidFilename(p, now)}
          /\ loc' = [loc EXCEPT ![p].locked = "real", ![p].waited = 0,
                                ![p].marker = lockPidFilename(p, now)]
          /\ Goto(p, "stats")
          /\ UNCHANGED ret
       \/ /\ flock' = p
          /\ loc' = [loc EXCEPT ![p].waited = 0]
          /\ Leave(p, "lockerr", "", TRUE)
          /\ UNCHANGED <<markers, lockfile>>
    /\ UNCHANGED <<scope, cfg, unitVars, fsVars, stats, gh, ncalls, clone, obsVars>>

\* syscall.Flock itself fails: no lock is taken.
LockerFlockError(p) ==
    /\ pc[p] = "flock"
    /\ loc' = [loc EXCEPT ![p].waited = 0]
    /\ Leave(p, "lockerr", "", TRUE)
    /\ UNCHANGED <<scope, cfg, unitVars, lockVars, fsVars, stats, gh, ncalls, clone, obsVars>>

\* The maximum wait NewEnvironment passes to Locker, in milliseconds
\* (line 359).
LockWaitLimit == 30000

\* Time passes while a call is blocked in syscall.Flock (lock_unix.go line
\* 34): Locker never reads trycount, so nothing but the release of the lock
\* ends the wait.  The clock stops once it is past the limit by one tick.
Tick(p) ==
    /\ pc[p] = "flock"
    /\ ~FlockGranted(flock)
    /\ loc[p].waited <= LockWaitLimit
    /\ loc' = [loc EXCEPT ![p].waited = @ + TickMillis]
    /\ UNCHANGED <<scope, cfg, unitVars, lockVars, fsVars, stats, pc, gh, ret, ncalls, clone,
                   obsVars>>

\* A descriptor left open by a failed Locker is closed by the runtime's
\* finalizer at some time, or never.
FinalizerClose(p) ==
    /\ flock = p
    /\ loc[p].locked # "real"
    /\ flock' = NoProc
    /\ UNCHANGED <<scope, cfg, unitVars, markers, lockfile, fsVars, stats, procVars, clone, obsVars>>

\* The counters are read (lines 367-374).
ReadStats(p) ==
    /\ pc[p] = "stats"
    /\ loc' = [loc EXCEPT ![p].requests = stats.request + 1,
                          ![p].hits = stats.hit,
                          ![p].dirty = stats.dirty,
                          ![p].misses = stats.miss,
                          ![p].failures = stats.failures,
                          ![p].merges = stats.merges,
                          ![p].freshInstall = ~IsDir(tmpl)]
    /\ Did(p, {"stats"})
    /\ Goto(p, "config")
    /\ UNCHANGED <<scope, cfg, unitVars, lockVars, fsVars, stats, ret, ncalls, clone, obsVars>>

\* The request counter is written, the descriptors are merged and saved
\* (lines 384-405).  multi: more than one configuration file was given.
Config(p) ==
    /\ pc[p] = "config"
    /\ \E multi \in BOOLEAN, bad \in BOOLEAN :
         LET merges == IF multi THEN loc[p].merges + 1 ELSE loc[p].merges
             s1 == [stats EXCEPT !.request = loc[p].requests]
             s2 == IF multi THEN [s1 EXCEPT !.merges = merges] ELSE s1
         IN  IF bad
             THEN /\ stats' = [s2 EXCEPT !.failures = loc[p].failures + 1]
                  /\ loc' = [loc EXCEPT ![p].merges = merges, ![p].failures = @ + 1]
                  /\ Leave(p, "cfgerr", "", TRUE)
             ELSE /\ stats' = s2
                  /\ loc' = [loc EXCEPT ![p].merges = merges]
                  /\ Goto(p, "reuse")
                  /\ UNCHANGED ret
    /\ UNCHANGED <<scope, cfg, unitVars, lockVars, fsVars, gh, ncalls, clone, obsVars>>


\* reuseExistingLive (lines 74-88): every way it can go.
reuseExistingLive(folder, meta, stageonly) ==
    IF stageonly THEN
        { [reusable |-> FALSE, err |-> FALSE, folder |-> folder, meta |-> meta,
           touched |-> FALSE] }
    ELSE IF IsPristine(folder, meta) THEN
        { [reusable |-> TRUE, err |-> FALSE, folder |-> folder, meta |-> meta,
           touched |-> TRUE] }
    ELSE
        { [reusable |-> FALSE, err |-> renameRemove(folder, meta, fs).err,
           folder |-> renameRemove(folder, meta, fs).folder,
           meta |-> renameRemove(folder, meta, fs).meta, touched |-> FALSE] :
            fs \in FsOutcomes }

\* Variant: the hit is never taken.
HitNever(force, reusable) == FALSE

\* The condition of the cache hit (line 414).
Hit(force, reusable) == ~force /\ reusable

\* The reuse check and the hit (lines 407-418).
Reuse(p) ==
    /\ pc[p] = "reuse"
    /\ \E rr \in reuseExistingLive(live, liveMeta, cfg.stageonly) :
             /\ live' = rr.folder
             /\ liveMeta' = rr.meta
             /\ Did(p, IF rr.touched THEN {"reuse", "touch"} ELSE {"reuse"})
             /\ IF rr.err THEN
                    /\ Leave(p, "ioerr", "", TRUE)
                    /\ UNCHANGED <<stats, loc>>
                ELSE IF Hit(loc[p].force, rr.reusable) THEN
                    /\ stats' = [stats EXCEPT !.hit = loc[p].hits + 1]
                    /\ loc' = [loc EXCEPT ![p].hits = @ + 1]
                    /\ Leave(p, "hit", "live", FALSE)
                ELSE
                    /\ Goto(p, IF loc[p].force \/ cfg.stageonly THEN "build" ELSE "clone")
                    /\ UNCHANGED <<stats, loc, ret>>
    /\ UNCHANGED <<scope, cfg, unitVars, lockVars, tmpl, tmplMeta, planfile, finalplan, ncalls,
                   clone, obsVars>>

Cloned(s, sm, t, tm, r) ==
    IF scope.detail = "call"
    THEN [ran |-> TRUE, liveonly |-> cfg.liveonly, stageonly |-> cfg.stageonly,
          source |-> s, sourceMeta |-> sm, target |-> t, targetMeta |-> tm, out |-> r]
    ELSE clone

\* Every way a CloneFromTo call can go.
CloneOutcomes(source, sourceMeta, target, targetMeta, liveonly, stageonly) ==
    { CloneFromTo(source, sourceMeta, target, targetMeta, liveonly, stageonly, ch) :
        ch \in CloneChoices(source) }

\* The template is cloned to the live folder (lines 426-447).
Clone(p) ==
    /\ pc[p] = "clone"
    /\ \E r \in CloneOutcomes(tmpl, tmplMeta, live, liveMeta, cfg.liveonly, cfg.stageonly) :
             /\ tmpl' = r.source
             /\ tmplMeta' = r.sourceMeta
             /\ live' = r.target
             /\ liveMeta' = r.targetMeta
             /\ clone' = Cloned(tmpl, tmplMeta, live, liveMeta, r)
             /\ Did(p, {"clone"})
             /\ IF r.err THEN
                    /\ Leave(p, "ioerr", "", TRUE)
                    /\ UNCHANGED <<stats, loc>>
                ELSE IF r.ok THEN
                    /\ stats' = [stats EXCEPT !.dirty = loc[p].dirty + 1]
                    /\ loc' = [loc EXCEPT ![p].dirty = @ + 1]
                    /\ Leave(p, "dirty", "live", FALSE)
                ELSE
                    /\ Goto(p, "build")
                    /\ UNCHANGED <<stats, loc, ret>>
    /\ UNCHANGED <<scope, cfg, unitVars, lockVars, planfile, finalplan, ncalls, obsVars>>

\* common.ForceDebug with common.UnifyVerbosityFlags.
UnifyVerbosityFlags(v) ==
    LET a == IF v.silent THEN [v EXCEPT !.debug = FALSE, !.trace = FALSE] ELSE v
    IN  IF a.trace THEN [a EXCEPT !.debug = TRUE] ELSE a

ForceDebug(v) == UnifyVerbosityFlags([v EXCEPT !.silent = FALSE, !.debug = TRUE])

\* The verbosity flags the first attempt runs with.
Verbosity0 == [silent |-> FALSE, debug |-> FALSE, trace |-> FALSE]

\* Variant: there is no second try.
RetryWantedNever(success, force, fatal) == FALSE

\* Variant: a forced build is retried too.
RetryWantedForced(success, force, fatal) == ~success /\ ~fatal

\* The condition of the second try (line 163).
RetryWanted(success, force, fatal) == ~success /\ ~force /\ ~fatal

RequirementFiles == {"missing", "empty", "some"}
MaxPosts == 2

\* An attempt's result, with no more of its history than is kept.
Kept(r, detail) ==
    IF detail = "attempt" THEN r
    ELSE [r EXCEPT !.rec = [AttemptRec(r.rec.force, r.rec.debug) EXCEPT
                              !.start = r.rec.start]]

\* Every way the first attempt can go.  The requirements file and the
\* scripts are remembered for the second try.
FirstTry(folder, meta, final, force, stageonly, detail) ==
    UNION { { LET again == RetryWanted(r.ok, force, r.fatal)
              IN  [r |-> Kept(r, detail), again |-> again,
                   req |-> IF again THEN req ELSE Locals0.req,
                   posts |-> IF again THEN posts ELSE Locals0.posts] :
              r \in newLiveInternal(folder, meta, final, force, Verbosity0.debug,
                                    req, posts, stageonly) } :
            req \in RequirementFiles, posts \in 0..MaxPosts }

SecondTry(folder, meta, final, req, posts, stageonly, detail) ==
    { Kept(r, detail) :
        r \in newLiveInternal(folder, meta, final, TRUE, ForceDebug(Verbosity0).debug,
                              req, posts, stageonly) }

\* newLive up to the end of the first attempt (lines 149-163).  The
\* requirements file and the post-install scripts come from the saved
\* configuration.
Build(p) ==
    /\ pc[p] = "build"
    /\ \E mamba \in BOOLEAN, rr \in { renameRemove(live, liveMeta, fs) : fs \in FsOutcomes } :
             IF ~mamba THEN
                 /\ Leave(p, "nomamba", "", TRUE)
                 /\ Did(p, {"newlive"})
                 /\ UNCHANGED <<live, liveMeta, planfile, finalplan, loc>>
             ELSE IF rr.err THEN
                 /\ live' = rr.folder
                 /\ liveMeta' = rr.meta
                 /\ Leave(p, "ioerr", "", TRUE)
                 /\ Did(p, {"newlive"})
                 /\ UNCHANGED <<planfile, finalplan, loc>>
             ELSE
                 \E o \in FirstTry(rr.folder, rr.meta, finalplan, loc[p].force,
                                    cfg.stageonly, scope.detail) :
                     /\ live' = o.r.live
                     /\ liveMeta' = o.r.liveMeta
                     /\ finalplan' = o.r.finalplan
                     /\ planfile' = PlanLeft(o.r.plan, planfile)
                     /\ DidAttempt(p, {"newlive"}, o.r)
                     /\ loc' = [loc EXCEPT ![p].req = o.req, ![p].posts = o.posts,
                                           ![p].success = o.r.ok]
                     /\ Goto(p, IF o.again THEN "retry" ELSE "finish")
                     /\ UNCHANGED ret
    /\ UNCHANGED <<scope, cfg, unitVars, lockVars, tmpl, tmplMeta, stats, ncalls, clone,
                   obsVars>>

\* The second attempt (lines 164-175).
Retry(p) ==
    /\ pc[p] = "retry"
    /\ \E rr \in { renameRemove(live, liveMeta, fs) : fs \in FsOutcomes } :
             IF rr.err THEN
                 /\ live' = rr.folder
                 /\ liveMeta' = rr.meta
                 /\ Leave(p, "ioerr", "", TRUE)
                 /\ Did(p, {"retry"})
                 /\ UNCHANGED <<planfile, finalplan, loc>>
             ELSE
                 \E r \in SecondTry(rr.folder, rr.meta, finalplan, loc[p].req,
                                    loc[p].posts, cfg.stageonly, scope.detail) :
                     /\ live' = r.live
                     /\ liveMeta' = r.liveMeta
                     /\ finalplan' = r.finalplan
                     /\ planfile' = PlanLeft(r.plan, planfile)
                     /\ DidAttempt(p, {"retry"}, r)
                     /\ loc' = [loc EXCEPT ![p].success = r.ok,
                                           ![p].req = Locals0.req,
                                           ![p].posts = Locals0.posts]
                     /\ Goto(p, "finish")
                     /\ UNCHANGED ret
    /\ UNCHANGED <<scope, cfg, unitVars, lockVars, tmpl, tmplMeta, stats, ncalls, clone,
                   obsVars>>

\* Variant: the failure is not counted.
FailuresAfterLost(failures) == failures

\* failures += 1 (line 471).
FailuresAfter(failures) == failures + 1

\* Variant: the new live folder is backed up as template with live-only too.
BackupSkippedNever(liveonly) == FALSE

\* if common.Liveonly (line 457).
BackupSkipped(liveonly) == liveonly

\* After newLive: the miss with the backup of the template, or the
\* failure (lines 451-473).
Finish(p) ==
    /\ pc[p] = "finish"
    /\ IF loc[p].success THEN
           /\ stats' = [stats EXCEPT !.miss = loc[p].misses + 1]
           /\ loc' = [loc EXCEPT ![p].misses = @ + 1]
           /\ IF BackupSkipped(cfg.liveonly) THEN
                  /\ Leave(p, "miss", "live", FALSE)
                  /\ Did(p, {"miss"})
                  /\ UNCHANGED <<fsVars, clone>>
              ELSE
                  \E r \in CloneOutcomes(live, liveMeta, tmpl, tmplMeta,
                                          cfg.liveonly, cfg.stageonly) :
                        /\ live' = r.source
                        /\ liveMeta' = r.sourceMeta
                        /\ tmpl' = r.target
                        /\ tmplMeta' = r.targetMeta
                        /\ clone' = Cloned(live, liveMeta, tmpl, tmplMeta, r)
                        /\ Did(p, {"miss", "backup"})
                        /\ IF r.err THEN Leave(p, "ioerr", "", TRUE)
                                    ELSE Leave(p, "miss", "live", FALSE)
                        /\ UNCHANGED <<planfile, finalplan>>
       ELSE
           /\ stats' = [stats EXCEPT !.failures = FailuresAfter(loc[p].failures)]
           /\ loc' = [loc EXCEPT ![p].failures = FailuresAfter(@)]
           /\ Leave(p, "fail", "", TRUE)
           /\ Did(p, {"fail"})
           /\ UNCHANGED <<fsVars, clone>>
    /\ UNCHANGED <<scope, cfg, unitVars, lockVars, ncalls, obsVars>>

\* Locked.Release: the descriptor's lock is given up.
Release(owner, p) == IF owner = p THEN NoProc ELSE owner

\* The deferred calls run and NewEnvironment returns (line 365): the
\* releaser, when Locker gave one, is released.
Return(p) ==
    /\ pc[p] = "ret"
    /\ IF loc[p].locked = "real"
       THEN /\ flock' = Release(flock, p)
            /\ markers' = markers \ {loc[p].marker}
       ELSE UNCHANGED <<flock, markers>>
    /\ UNCHANGED lockfile
    /\ loc' = [loc EXCEPT ![p] = Locals0]
    /\ gh' = [gh EXCEPT ![p] = [History0 EXCEPT
                                  !.rel = IF loc[p].locked = "none" THEN 0 ELSE 1]]
    /\ ret' = [ret EXCEPT ![p] = Ret0]
    /\ Goto(p, "idle")
    /\ UNCHANGED <<scope, cfg, unitVars, fsVars, stats, ncalls, clone, obsVars>>

(***************************************************************************)
(* What happens to the folders between calls.                              *)
(***************************************************************************)
AllIdle == \A p \in Procs : pc[p] = "idle"

Toggle(folder) ==
    IF "x" \in folder.files THEN Dir(folder.files \ {"x"}) ELSE Dir(folder.files \cup {"x"})

\* Someone changes a file of the live folder or of the template.
Tamper ==
    /\ AllIdle
    /\ \/ /\ IsDir(live) /\ live' = Toggle(live) /\ UNCHANGED tmpl
       \/ /\ IsDir(tmpl) /\ tmpl' = Toggle(tmpl) /\ UNCHANGED live
    /\ UNCHANGED <<scope, cfg, unitVars, lockVars, liveMeta, tmplMeta, planfile, finalplan, stats,
                   procVars, clone, obsVars>>

\* RemoveEnvironment(label): the template is removed only when the live
\* folder could be.
RemoveEnvironment ==
    /\ AllIdle
    /\ \E fs1 \in FsOutcomes, fs2 \in FsOutcomes :
         LET r1 == renameRemove(live, liveMeta, fs1)
             r2 == renameRemove(tmpl, tmplMeta, fs2)
         IN  /\ live' = r1.folder
             /\ liveMeta' = r1.meta
             /\ tmpl' = IF r1.err THEN tmpl ELSE r2.folder
             /\ tmplMeta' = IF r1.err THEN tmplMeta ELSE r2.meta
    /\ UNCHANGED <<scope, cfg, unitVars, lockVars, planfile, finalplan, stats, procVars, clone,
                   obsVars>>

Next ==
    \/ \E p \in Procs : Call(p)
    \/ \E p \in Procs : LockerOpen(p)
    \/ \E p \in Procs : LockerFlock(p)
    \/ \E p \in Procs : LockerFlockError(p)
    \/ \E p \in Procs : FinalizerClose(p)
    \/ \E p \in Procs : ReadStats(p)
    \/ \E p \in Procs : Config(p)
    \/ \E p \in Procs : Reuse(p)
    \/ \E p \in Procs : Clone(p)
    \/ \E p \in Procs : Build(p)
    \/ \E p \in Procs : Retry(p)
    \/ \E p \in Procs : Finish(p)
    \/ \E p \in Procs : Return(p)
    \/ Tamper
    \/ RemoveEnvironment

\* Concurrent callers.
Spec == Init /\ [][Next]_vars

\* The steps of a call of p that need nothing but the processor: not the
\* entry, which is the caller's choice, not the return of syscall.Flock,
\* which needs the lock, and not the steps that wait for micromamba, pip
\* or the copy of a folder.
Step(p) ==
    \/ LockerOpen(p)
    \/ ReadStats(p)
    \/ Config(p)
    \/ Reuse(p)
    \/ Return(p)

\* Concurrent callers that serialize on the lock, under fair scheduling: a
\* call that can go on does, and a caller blocked in syscall.Flock is not
\* passed over for ever when the lock comes free again and again.  Nothing
\* is assumed of the subprocesses, nor of the finalizer of a descriptor
\* that a failed Locker left open.
InitFair ==
    /\ cfg \in { c \in Configurations : ~c.lockless /\ ~c.liveonly /\ ~c.stageonly }
    /\ scope = [procs |-> Procs, detail |-> "none", calls |-> MaxCalls]
    /\ FreshHome
    /\ ProcsIdle
    /\ ObsIdle

SpecFair ==
    /\ InitFair /\ [][Next]_vars
    /\ \A p \in Procs : WF_vars(Step(p)) /\ SF_vars(LockerFlock(p))

\* Concurrent callers and the clock of the waiting ones.
NextWait ==
    \/ Next
    \/ \E p \in Procs : Tick(p)

SpecWait == Init /\ [][NextWait]_vars

\* One caller, with the history of its call.
SpecCall == InitCall /\ [][Next]_vars

NextBuild ==
    \/ Call(1)
    \/ LockerOpen(1)
    \/ LockerFlock(1)
    \/ LockerFlockError(1)
    \/ FinalizerClose(1)
    \/ ReadStats(1)
    \/ Config(1)
    \/ Reuse(1)
    \/ Clone(1)
    \/ Build(1)
    \/ Retry(1)
    \/ Finish(1)
    \/ Return(1)

\* One caller, with the history of its build attempts, on a home nobody
\* else touches.
SpecBuild == InitBuild /\ [][NextBuild]_vars

(***************************************************************************)
(* The observer on its own: the solver's output arrives chunk by chunk,    *)
(* then newLiveInternal asks HasFailures(targetFolder).  The target is the *)
(* live folder as the solver left it.                                      *)
(***************************************************************************)
InitObserver ==
    /\ scope = [procs |-> {}, detail |-> "none", calls |-> 0]
    /\ cfg = [lockless |-> FALSE, stageonly |-> FALSE, liveonly |-> FALSE,
              nobuild |-> FALSE]
    /\ lockfile = NoLockfile
    /\ live = Dir({"bin", "pyc"})
    /\ liveMeta \in {NoMeta, BuiltMeta}
    /\ tmpl = NoDir /\ tmplMeta = NoMeta
    /\ finalplan = FALSE
    /\ planfile = TRUE
    /\ stats = ZeroStats
    /\ ProcsIdle
    /\ obsMap = {}
    /\ obsRest \in StreamsUpTo(MaxChunks)
    /\ obsRet = [n |-> 0, err |-> FALSE]
    /\ obsPrev = {}
    /\ obsSeen = << >>
    /\ obsVerdict = "none"

\* One Write of the tee (lines 123-135).
ObsWrite ==
    /\ obsVerdict = "none"
    /\ obsRest # << >>
    /\ LET r == Write(obsMap, Head(obsRest))
       IN  /\ obsMap' = r.map
           /\ obsRet' = [n |-> r.n, err |-> r.err]
    /\ obsPrev' = obsMap
    /\ obsSeen' = Append(obsSeen, Head(obsRest))
    /\ obsRest' = Tail(obsRest)
    /\ UNCHANGED <<scope, cfg, unitVars, lockVars, fsVars, stats, procVars, clone, obsVerdict>>

\* HasFailures(targetFolder) once the solver is done (lines 137-147): the
\* target is rename-removed when the verdict is a failure, whatever the
\* removal returns.
ObsHasFailures ==
    /\ obsVerdict = "none"
    /\ obsRest = << >>
    /\ IF HasFailures(obsMap)
       THEN /\ \E fs \in FsOutcomes :
                 /\ live' = renameRemove(live, liveMeta, fs).folder
                 /\ liveMeta' = renameRemove(live, liveMeta, fs).meta
            /\ obsVerdict' = "failures"
       ELSE /\ obsVerdict' = "clean"
            /\ UNCHANGED <<live, liveMeta>>
    /\ UNCHANGED <<scope, cfg, unitVars, lockVars, tmpl, tmplMeta, planfile, finalplan, stats,
                   procVars, clone, obsMap, obsRest, obsRet, obsPrev, obsSeen>>

NextObserver == ObsWrite \/ ObsHasFailures

SpecObserver == InitObserver /\ [][NextObserver]_vars

(***************************************************************************)
(* Locker and Release on their own: processes take and release the lock,   *)
(* each in lockless mode or not; Release runs its deferred calls in the    *)
(* order unlock, close, remove the marker.                                 *)
(***************************************************************************)
\* Fake(): the releaser of lockless mode.
Fake ==
    [kind |-> "fake", marker |-> EarlierMarker, open |-> FALSE, releases |-> 0,
     stuck |-> FALSE]

\* &Locked{file, marker} (lock_unix.go line 45).
Locked(marker) ==
    [kind |-> "real", marker |-> marker, open |-> TRUE, releases |-> 0, stuck |-> FALSE]

\* Variant: lockless mode is not looked at.
SkipsLockNever(lockless) == FALSE

\* if Lockless (lock_unix.go line 15).
SkipsLock(lockless) == lockless

InitLock ==
    /\ scope = [procs |-> {}, detail |-> "none", calls |-> 0]
    /\ cfg = [lockless |-> FALSE, stageonly |-> FALSE, liveonly |-> FALSE,
              nobuild |-> FALSE]
    /\ FreshHome \/ BuiltHome
    /\ flock = NoProc
    /\ markers = {}
    /\ pc = [p \in Procs |-> "idle"]
    /\ loc = [p \in Procs |-> Locals0]
    /\ gh = [p \in Procs |-> History0]
    /\ ret = [p \in Procs |-> Ret0]
    /\ ncalls = 0
    /\ clone = Clone0
    /\ ObsIdle
    /\ lk \in [Procs -> { [Lk0 EXCEPT !.lockless = b] : b \in BOOLEAN }]
    /\ now = 0
    /\ notif = Notif0
    /\ StepsIdle

\* Locker up to the flock call (lines 14-33): "parent" and "shared" are the
\* errors before and after os.OpenFile.
LkLocker(p) ==
    /\ lk[p].at = "out"
    /\ lk[p].calls < MaxLockerCalls
    /\ IF SkipsLock(lk[p].lockless) THEN
           /\ lk' = [lk EXCEPT ![p].held = Append(@, Fake), ![p].err = FALSE,
                               ![p].again = FALSE, ![p].calls = @ + 1]
           /\ UNCHANGED lockfile
       ELSE
           \E way \in {"parent", "shared", "opened"} :
               /\ lockfile' = IF way = "parent" THEN lockfile ELSE Truncated
               /\ lk' = [lk EXCEPT ![p].at = IF way = "opened" THEN "flock" ELSE "out",
                                   ![p].err = way # "opened",
                                   ![p].again = FALSE, ![p].calls = @ + 1]
    /\ UNCHANGED <<scope, cfg, stepVars, flock, markers, now, notif, fsVars, stats, procVars, clone,
                   obsVars>>

\* syscall.Flock returns, the marker name is written and the marker made
\* (lines 34-45); or the write fails and the error is returned with the
\* lock taken.
LkFlock(p) ==
    /\ lk[p].at = "flock"
    /\ FlockGranted(flock)
    /\ flock' = p
    /\ \/ /\ lockfile' = Written(lockfile, lockPidFilename(p, now))
          /\ markers' = markers \cup {lockPidFilename(p, now)}
          /\ lk' = [lk EXCEPT ![p].at = "out", ![p].err = FALSE,
                              ![p].held = Append(@, Locked(lockPidFilename(p, now)))]
       \/ /\ lk' = [lk EXCEPT ![p].at = "out", ![p].err = TRUE]
          /\ UNCHANGED <<markers, lockfile>>
    /\ UNCHANGED <<scope, cfg, stepVars, now, notif, fsVars, stats, procVars, clone, obsVars>>

\* syscall.Flock fails (lines 35-37).
LkFlockError(p) ==
    /\ lk[p].at = "flock"
    /\ lk' = [lk EXCEPT ![p].at = "out", ![p].err = TRUE]
    /\ UNCHANGED <<scope, cfg, stepVars, lockVars, now, notif, fsVars, stats, procVars, clone,
                   obsVars>>

\* The descriptor a failed Locker left open with the lock is finalized.
LkFinalizer(p) ==
    /\ flock = p
    /\ lk[p].at = "out"
    /\ \A i \in 1..Len(lk[p].held) : ~lk[p].held[i].open
    /\ flock' = NoProc
    /\ UNCHANGED <<scope, cfg, unitVars, markers, lockfile, fsVars, stats, procVars, clone,
                   obsVars>>

\* Release up to the close of the file (lines 48-53).  On a file closed
\* by an earlier Release Fd() is -1 and syscall.Flock returns its error.
\* fake.Release returns what common.Trace returns.
LkRelease(p) ==
    /\ lk[p].at = "out"
    /\ \E i \in 1..Len(lk[p].held) :
         LET r == lk[p].held[i]
         IN  /\ r.releases < MaxReleases
             /\ IF r.kind = "fake" THEN
                    /\ lk' = [lk EXCEPT ![p].held[i].releases = @ + 1,
                                        ![p].which = i, ![p].err = FALSE,
                                        ![p].again = r.releases > 0]
                    /\ UNCHANGED flock
                ELSE IF r.open THEN
                    /\ flock' = Release(flock, p)
                    /\ lk' = [lk EXCEPT ![p].held[i].releases = @ + 1,
                                        ![p].held[i].open = FALSE,
                                        ![p].at = "unmark",
                                        ![p].which = i, ![p].err = FALSE,
                                        ![p].again = FALSE]
                ELSE
                    /\ lk' = [lk EXCEPT ![p].held[i].releases = @ + 1,
                                        ![p].at = "unmark",
                                        ![p].which = i, ![p].err = TRUE,
                                        ![p].again = TRUE]
                    /\ UNCHANGED flock
    /\ UNCHANGED <<scope, cfg, stepVars, markers, lockfile, now, notif, fsVars, stats, procVars,
                   clone, obsVars>>

\* Variant: Release leaves the marker behind.
MarkersAfterKept(ms, marker, removed) == ms

\* defer os.Remove(it.Marker) (line 49); removed: the call succeeds.
MarkersAfter(ms, marker, removed) == IF removed THEN ms \ {marker} ELSE ms

\* The last deferred call of Release: os.Remove(it.Marker) (line 49), whose
\* error is dropped.
LkUnmark(p) ==
    /\ lk[p].at = "unmark"
    /\ \E removed \in BOOLEAN :
         LET m == lk[p].held[lk[p].which].marker
         IN  /\ markers' = MarkersAfter(markers, m, removed)
             /\ lk' = [lk EXCEPT ![p].at = "out",
                                 ![p].held[lk[p].which].stuck =
                                     (~removed /\ m \in markers)]
    /\ UNCHANGED <<scope, cfg, stepVars, flock, lockfile, now, notif, fsVars, stats, procVars, clone,
                   obsVars>>

\* A second passes: marker names made from now on differ from the earlier
\* ones.
LkSecond ==
    /\ now < MaxSeconds
    /\ now' = now + 1
    /\ UNCHANGED <<scope, cfg, stepVars, lockVars, lk, notif, fsVars, stats, procVars, clone, obsVars>>

NextLock ==
    \/ \E p \in Procs : LkLocker(p)
    \/ \E p \in Procs : LkFlock(p)
    \/ \E p \in Procs : LkFlockError(p)
    \/ \E p \in Procs : LkFinalizer(p)
    \/ \E p \in Procs : LkRelease(p)
    \/ \E p \in Procs : LkUnmark(p)
    \/ LkSecond

SpecLock == InitLock /\ [][NextLock]_vars

(***************************************************************************)
(* waitingLockNotification on its own, with a clock of seconds: a timer of *)
(* time.After fires once its delay has passed, at most MaxLate seconds     *)
(* late; NewEnvironment calls the function LockWaitMessage returned when   *)
(* Locker has returned, and the notifier takes the latch in its select.    *)
(***************************************************************************)
\* delay := 5 * time.Second (part_001 line 40).
FirstDelay == 5

DelayFactor == 3

\* Variant: the delay stays what it was.
NextDelaySame(delay) == delay

\* delay *= 3 (line 48).
NextDelay(delay) == delay * DelayFactor

\* LockWaitMessage has started the notifier (lines 55-57).
InitNotifier ==
    /\ scope = [procs |-> {}, detail |-> "none", calls |-> 0]
    /\ cfg = [lockless |-> FALSE, stageonly |-> FALSE, liveonly |-> FALSE,
              nobuild |-> FALSE]
    /\ FreshHome
    /\ flock = NoProc
    /\ markers = {}
    /\ pc = [p \in Procs |-> "idle"]
    /\ loc = [p \in Procs |-> Locals0]
    /\ gh = [p \in Procs |-> History0]
    /\ ret = [p \in Procs |-> Ret0]
    /\ ncalls = 0
    /\ clone = Clone0
    /\ ObsIdle
    /\ lk = [p \in Procs |-> Lk0]
    /\ now = 0
    /\ notif = [Notif0 EXCEPT !.on = TRUE, !.delay = FirstDelay]
    /\ StepsIdle

\* A second passes while the notifier waits in its select.
NotifSecond ==
    /\ notif.on /\ ~notif.busy
    /\ notif.counter < MaxMessages
    /\ notif.since < notif.delay + MaxLate
    /\ notif' = [notif EXCEPT !.since = @ + 1]
    /\ UNCHANGED <<scope, cfg, stepVars, lockVars, lk, now, fsVars, stats, procVars, clone, obsVars>>

\* case <-time.After(delay) (lines 46-50): the message is logged with its
\* number; the log keeps the seconds waited for it.
NotifMessage ==
    /\ notif.on /\ ~notif.busy
    /\ notif.counter < MaxMessages
    /\ notif.since >= notif.delay
    /\ notif' = [notif EXCEPT !.counter = @ + 1,
                              !.delay = NextDelay(@),
                              !.since = 0,
                              !.busy = TRUE,
                              !.log = Append(@, [n |-> notif.counter + 1,
                                                 gap |-> notif.since])]
    /\ UNCHANGED <<scope, cfg, stepVars, lockVars, lk, now, fsVars, stats, procVars, clone, obsVars>>

\* common.Log and common.Timeline have returned (lines 49-50): the notifier
\* is back at its select.
NotifLogged ==
    /\ notif.busy
    /\ notif' = [notif EXCEPT !.busy = FALSE]
    /\ UNCHANGED <<scope, cfg, stepVars, lockVars, lk, now, fsVars, stats, procVars, clone, obsVars>>

\* NewEnvironment calls callback() when Locker has returned, with an error
\* or without (workflows.go lines 359-360): the caller blocks in
\* latch <- true (part_001 line 59).
NotifCancel ==
    /\ notif.cancel = "no"
    /\ \E err \in BOOLEAN :
         notif' = [notif EXCEPT !.cancel = "sending", !.lockerr = err]
    /\ UNCHANGED <<scope, cfg, stepVars, lockVars, lk, now, fsVars, stats, procVars, clone, obsVars>>

\* Variant: the latch case does not return.
LatchedGoesOn(n) == n

\* case <-latch: return (lines 44-45).
Latched(n) == [n EXCEPT !.on = FALSE]

\* The notifier, at its select, takes the value sent on the latch: the send
\* is over and the callback returns.
NotifLatch ==
    /\ notif.on /\ ~notif.busy
    /\ notif.cancel = "sending"
    /\ notif' = [Latched(notif) EXCEPT !.cancel = "returned"]
    /\ UNCHANGED <<scope, cfg, stepVars, lockVars, lk, now, fsVars, stats, procVars, clone, obsVars>>

NextNotifier == NotifSecond \/ NotifMessage \/ NotifLogged \/ NotifCancel \/ NotifLatch

SpecNotifier == InitNotifier /\ [][NextNotifier]_vars

\* The notifier under the Go scheduler: Locker returns, common.Log returns,
\* and a goroutine that can run does run.
SpecNotifierLive ==
    /\ SpecNotifier
    /\ WF_vars(NotifCancel) /\ WF_vars(NotifLogged) /\ WF_vars(NotifLatch)

(***************************************************************************)
(* renameRemove on its own, call by call of the file system.               *)
(***************************************************************************)
\* No process is in NewEnvironment, Locker or the notifier.
NothingRuns ==
    /\ scope = [procs |-> {}, detail |-> "none", calls |-> 0]
    /\ cfg = [lockless |-> FALSE, stageonly |-> FALSE, liveonly |-> FALSE,
              nobuild |-> FALSE]
    /\ FreshHome
    /\ flock = NoProc
    /\ markers = {}
    /\ pc = [p \in Procs |-> "idle"]
    /\ loc = [p \in Procs |-> Locals0]
    /\ gh = [p \in Procs |-> History0]
    /\ ret = [p \in Procs |-> Ret0]
    /\ ncalls = 0
    /\ clone = Clone0
    /\ ObsIdle
    /\ lk = [p \in Procs |-> Lk0]
    /\ now = 0
    /\ notif = Notif0

\* The .meta files a location can have: none, the one of a build, a stale
\* one.
Metas == {NoMeta, BuiltMeta, <<Hexdigest({"bin"})>>}

\* renameRemove is called on a location: nothing, or a directory.
InitRemove ==
    /\ NothingRuns
    /\ cp = Cp0
    /\ ident = Ident0
    /\ \E folder \in {NoDir} \cup { Dir(fs) : fs \in SUBSET Entries }, meta \in Metas :
         rm = [Rm0 EXCEPT !.at = "start", !.location = folder, !.meta = meta,
                          !.location0 = folder, !.meta0 = meta]

\* if !pathlib.IsDir(location) (lines 497-500).
RmCheck ==
    /\ rm.at = "start"
    /\ rm' = [rm EXCEPT !.at = IF IsDir(rm.location) THEN "rename" ELSE "done"]
    /\ UNCHANGED <<scope, cfg, lockVars, lk, now, notif, cp, ident, fsVars, stats, procVars, clone,
                   obsVars>>

\* os.Rename(location, randomLocation) (lines 501-507).
RmRename ==
    /\ rm.at = "rename"
    /\ \/ rm' = [rm EXCEPT !.at = "remove", !.location = NoDir, !.random = rm.location]
       \/ rm' = [rm EXCEPT !.at = "done", !.err = TRUE, !.fs = "rename"]
    /\ UNCHANGED <<scope, cfg, lockVars, lk, now, notif, cp, ident, fsVars, stats, procVars, clone,
                   obsVars>>

\* os.RemoveAll(randomLocation) (lines 508-513); when it fails some of the
\* tree may be left.
RmRemoveAll ==
    /\ rm.at = "remove"
    /\ \/ rm' = [rm EXCEPT !.at = "meta", !.random = NoDir]
       \/ \E left \in SUBSET rm.random.files :
              rm' = [rm EXCEPT !.at = "done", !.random = Dir(left), !.err = TRUE,
                               !.fs = "remove"]
    /\ UNCHANGED <<scope, cfg, lockVars, lk, now, notif, cp, ident, fsVars, stats, procVars, clone,
                   obsVars>>

\* The .meta is removed when it is a file (lines 515-522).
RmMeta ==
    /\ rm.at = "meta"
    /\ IF IsFile(rm.meta) THEN
           \/ rm' = [rm EXCEPT !.at = "done", !.meta = NoMeta]
           \/ rm' = [rm EXCEPT !.at = "done", !.err = TRUE, !.fs = "meta"]
       ELSE rm' = [rm EXCEPT !.at = "done"]
    /\ UNCHANGED <<scope, cfg, lockVars, lk, now, notif, cp, ident, fsVars, stats, procVars, clone,
                   obsVars>>

NextRemove == RmCheck \/ RmRename \/ RmRemoveAll \/ RmMeta

SpecRemove == InitRemove /\ [][NextRemove]_vars

(***************************************************************************)
(* cloneFolder on its own: copyFolder sends the entries of a tree over the *)
(* queue, the workers take them one by one.  The tree is                   *)
(*     root / a, __pycache__ ("pyc"), sub / b, __pycache__ / c             *)
(* where a, b, c and "pyc" are files or symbolic links with their text,    *)
(* "sub" is a directory and "cache" the directory sub/__pycache__.  The    *)
(* entries of a directory are taken in any order.                          *)
(***************************************************************************)
\* Variant: cloneFolder is called with workers = 0.
NoWorkers == {}

Workers == 1..NumWorkers
Names == {"a", "b", "pyc", "c"}
Folders == {"root", "sub", "cache"}

\* What Readdir gives for a directory of the tree.
Children(d) ==
    IF d = "root" THEN {"a", "pyc", "sub"}
    ELSE IF d = "sub" THEN {"b", "cache"}
    ELSE {"c"}

\* Variant: no entry is passed over.
PycacheNever(n) == FALSE

\* entry.Name() == "__pycache__" (line 634).
Pycache(n) == n \in {"pyc", "cache"}
LinkTexts == {"t1", "t2"}
NoTask == "none"
NoLink == ""

EntryKinds ==
    {[kind |-> "file", text |-> NoLink]} \cup { [kind |-> "link", text |-> t] : t \in LinkTexts }

\* Variant: the worker hands every entry to the copier.
copyWorkerFollows(entry, readlink, symlink) ==
    [copier |-> 1, link |-> NoLink, misread |-> FALSE, unlinked |-> FALSE]

\* One turn of copyWorker (lines 661-671) on an entry: readlink and symlink
\* tell whether os.Readlink and os.Symlink work on it.  os.Readlink fails on
\* what is no symbolic link.
copyWorker(entry, readlink, symlink) ==
    IF entry.kind # "link" \/ ~readlink THEN
        [copier |-> 1, link |-> NoLink, misread |-> entry.kind = "link",
         unlinked |-> FALSE]
    ELSE IF symlink THEN
        [copier |-> 0, link |-> entry.text, misread |-> FALSE, unlinked |-> FALSE]
    ELSE
        [copier |-> 0, link |-> NoLink, misread |-> FALSE, unlinked |-> TRUE]

\* cloneFolder has started its workers (lines 581-587).
InitCopy ==
    /\ NothingRuns
    /\ rm = Rm0
    /\ ident = Ident0
    /\ \E source \in [Names -> EntryKinds] :
         cp = [source |-> source, todo |-> {"root"},
               task |-> [w \in Workers |-> NoTask],
               handed |-> [n \in Names |-> 0],
               copied |-> [n \in Names |-> 0],
               linked |-> [n \in Names |-> NoLink],
               misread |-> {}, unlinked |-> {}, made |-> {}, unread |-> {},
               closed |-> FALSE, done |-> {}]

\* copyFolder on a directory (lines 617-630, 640): the target directory is
\* made, and the entries are listed unless os.Open or Readdir fails; the
\* caller does not look at what a nested copyFolder returns.
CpEnter(d) ==
    /\ d \in cp.todo /\ d \in Folders /\ ~Pycache(d)
    /\ \E readable \in BOOLEAN :
         cp' = [cp EXCEPT !.todo = (@ \ {d}) \cup (IF readable THEN Children(d) ELSE {}),
                          !.made = @ \cup {d},
                          !.unread = IF readable THEN @ ELSE @ \cup {d}]
    /\ UNCHANGED <<scope, cfg, lockVars, lk, now, notif, rm, ident, fsVars, stats, procVars, clone,
                   obsVars>>

\* copyFolder passes over __pycache__ (lines 634-636).
CpSkip ==
    /\ \E n \in cp.todo :
         /\ Pycache(n)
         /\ cp' = [cp EXCEPT !.todo = @ \ {n}]
    /\ UNCHANGED <<scope, cfg, lockVars, lk, now, notif, rm, ident, fsVars, stats, procVars, clone,
                   obsVars>>

\* queue <- copyRequest (line 642): a worker waiting at the queue takes it.
CpDispatch(n, w) ==
    /\ n \in cp.todo /\ n \in Names /\ ~Pycache(n)
    /\ cp.task[w] = NoTask /\ w \notin cp.done
    /\ cp' = [cp EXCEPT !.todo = @ \ {n}, !.task[w] = n, !.handed[n] = @ + 1]
    /\ UNCHANGED <<scope, cfg, lockVars, lk, now, notif, rm, ident, fsVars, stats, procVars, clone,
                   obsVars>>

\* The worker handles its task (lines 661-671).
CpWork(w) ==
    /\ cp.task[w] # NoTask
    /\ \E readlink \in BOOLEAN, symlink \in BOOLEAN :
         LET n == cp.task[w]
             r == copyWorker(cp.source[n], readlink, symlink)
         IN  cp' = [cp EXCEPT !.task[w] = NoTask,
                              !.copied[n] = @ + r.copier,
                              !.linked[n] = IF r.link # NoLink THEN r.link ELSE @,
                              !.misread = IF r.misread THEN @ \cup {n} ELSE @,
                              !.unlinked = IF r.unlinked THEN @ \cup {n} ELSE @]
    /\ UNCHANGED <<scope, cfg, lockVars, lk, now, notif, rm, ident, fsVars, stats, procVars, clone,
                   obsVars>>

\* close(queue) after copyFolder (line 590).
CpClose ==
    /\ cp.todo = {} /\ ~cp.closed
    /\ cp.source # << >>
    /\ cp' = [cp EXCEPT !.closed = TRUE]
    /\ UNCHANGED <<scope, cfg, lockVars, lk, now, notif, rm, ident, fsVars, stats, procVars, clone,
                   obsVars>>

\* The worker finds the queue closed and reports done (lines 657-660, 673).
CpDone(w) ==
    /\ cp.source # << >>
    /\ cp.closed /\ cp.task[w] = NoTask /\ w \notin cp.done
    /\ cp' = [cp EXCEPT !.done = @ \cup {w}]
    /\ UNCHANGED <<scope, cfg, lockVars, lk, now, notif, rm, ident, fsVars, stats, procVars, clone,
                   obsVars>>

NextCopy ==
    \/ \E d \in Folders : CpEnter(d)
    \/ CpSkip
    \/ \E n \in Names, w \in Workers : CpDispatch(n, w)
    \/ \E w \in Workers : CpWork(w)
    \/ CpClose
    \/ \E w \in Workers : CpDone(w)

SpecCopy == InitCopy /\ [][NextCopy]_vars

\* The steps of the goroutine that runs cloneFolder; a send on the queue and
\* a receive of a done signal are steps of a worker as well.
CpMain ==
    \/ \E d \in Folders : CpEnter(d)
    \/ CpSkip
    \/ \E n \in Names, w \in Workers : CpDispatch(n, w)
    \/ CpClose

\* cloneFolder under the Go scheduler: a goroutine that can run does run,
\* and the copier, os.Readlink and os.Symlink return.
SpecCopyLive ==
    /\ SpecCopy
    /\ WF_vars(CpMain)
    /\ \A w \in Workers : WF_vars(CpWork(w)) /\ WF_vars(CpDone(w))

(***************************************************************************)
(* UserHomeIdentity (part_000 lines 316-326).  A uint64 is the sequence of *)
(* its HashDigits hexadecimal digits, the first the most significant; a    *)
(* string is the sequence of its characters.                               *)
(***************************************************************************)
\* The hexadecimal digits of a uint64.
HashDigits == 16
\* The minimum width of the verb %02x (line 324).
MinWidth == 2
\* digest[:7] (line 325).
IdentityLength == 7

HexChars == <<"0", "1", "2", "3", "4", "5", "6", "7", "8", "9", "a", "b", "c", "d", "e", "f">>

Unmanaged == <<"U", "N", "M", "N", "G", "E", "D">>
Badcafe == <<"b", "a", "d", "c", "a", "f", "e">>

\* The values of Siphash looked at: with every number of leading zero
\* digits, the digits after them all d or counting up from d.
HashValues ==
    { [i \in 1..HashDigits |-> IF i <= z THEN 0 ELSE d] :
          z \in 0..HashDigits, d \in {1, 10, 15} }
    \cup { [i \in 1..HashDigits |-> IF i <= z THEN 0 ELSE 1 + ((d + i) % 15)] :
          z \in 0..HashDigits, d \in {0, 7} }

RECURSIVE Significant(_)
\* The digits of a number without its leading zeros.
Significant(digits) ==
    IF digits = << >> \/ Head(digits) # 0 THEN digits ELSE Significant(Tail(digits))

RECURSIVE Padded(_, _)
\* Zeros in front up to the width.
Padded(text, width) ==
    IF Len(text) >= width THEN text ELSE Padded(<<"0">> \o text, width)

\* fmt.Sprintf("%02x", value) of a uint64 (line 324): the hexadecimal
\* digits of the value, at least two of them.
Sprintf02x(value) ==
    LET digits == Significant(value)
    IN  Padded([i \in 1..Len(digits) |-> HexChars[digits[i] + 1]], MinWidth)

\* text[:n]: a slice beyond the length of the string panics.
Prefix(text, n) ==
    IF n > Len(text) THEN [panic |-> TRUE, text |-> << >>]
    ELSE [panic |-> FALSE, text |-> SubSeq(text, 1, n)]

\* UserHomeIdentity (lines 316-326); hash is what Siphash gives for the
\* home directory.
UserHomeIdentity(unmanaged, homeerr, hash) ==
    IF unmanaged THEN [panic |-> FALSE, text |-> Unmanaged]
    ELSE IF homeerr THEN [panic |-> FALSE, text |-> Badcafe]
    ELSE Prefix(Sprintf02x(hash), IdentityLength)

InitIdentity ==
    /\ NothingRuns
    /\ rm = Rm0
    /\ cp = Cp0
    /\ \E unmanaged \in BOOLEAN, homeerr \in BOOLEAN, hash \in HashValues :
         ident = [at |-> "call", unmanaged |-> unmanaged, homeerr |-> homeerr,
                  hash |-> hash, out |-> NoIdentity]

\* One call of UserHomeIdentity.
IdentityCall ==
    /\ ident.at = "call"
    /\ ident' = [ident EXCEPT !.at = "done",
                              !.out = UserHomeIdentity(ident.unmanaged, ident.homeerr,
                                                       ident.hash)]
    /\ UNCHANGED <<scope, cfg, lockVars, lk, now, notif, rm, cp, fsVars, stats, procVars, clone,
                   obsVars>>

NextIdentity == IdentityCall

SpecIdentity == InitIdentity /\ [][NextIdentity]_vars

(***************************************************************************)
(* Properties.                                                             *)
(***************************************************************************)
\* The steps of NewEnvironment after Locker has returned and before the
\* deferred Release has run.
Pipeline == {"stats", "config", "reuse", "clone", "build", "retry", "finish"}

Holding(p) ==
    \/ pc[p] \in Pipeline
    \/ pc[p] = "ret" /\ loc[p].locked # "none"

\* C1: with real locks, at most one process at a time is between the
\* successful return of Locker and its Release: no two calls are at their
\* reuse check, clone, build or backup together.
C1_MutualExclusion ==
    ~cfg.lockless =>
        \A p \in Procs : \A q \in Procs :
            (p # q /\ Holding(p)) => ~Holding(q)

\* One process builds while the other waits in flock.
C1_Witness ==
    /\ ~cfg.lockless
    /\ pc[1] = "build"
    /\ pc[2] = "flock"

\* C2: a call that got the lock holds it at every step that reads or
\* changes a counter, the live folder or the template, and the step that
\* returns from the call is the one that gives the lock up.
C2_LockHeld ==
    /\ [](~cfg.lockless =>
            \A p \in Procs :
                /\ Holding(p) => flock = p /\ loc[p].locked = "real"
                /\ pc[p] \in {"idle", "open", "flock"} => loc[p].locked = "none")
    /\ [][~cfg.lockless =>
            \A p \in Procs :
                /\ (Holding(p) /\ pc'[p] = "idle") => (pc[p] = "ret" /\ flock' = NoProc)
                /\ (Holding(p) /\ flock' # p) => pc'[p] = "idle"
                /\ (pc[p] \in {"stats", "config", "reuse", "clone", "build", "retry",
                               "finish"}
                        /\ pc'[p] # pc[p]) => flock' = p]_vars

\* A call that held the lock has returned and the lock is free again.
C2_Witness ==
    /\ ~cfg.lockless
    /\ pc[1] = "idle"
    /\ gh[1].rel = 1
    /\ flock = NoProc
    /\ stats.request > 0

\* The condition under which the code asks for a second attempt, read off
\* the first attempt's record.
Wanted(a) == ~a.ok /\ ~a.force /\ ~a.fatal

\* C3: newLive makes at most two build attempts; a second attempt is made
\* only when the first failed, force was not requested and the failure was
\* not fatal, and then it is made unless the renewed removal of the target
\* folder fails (newLive returns that error); the second attempt runs with
\* force (repodata ttl 0 instead of 57600) and debug verbosity, on a
\* removed target folder.
C3_Retry ==
    \A p \in Procs :
        LET a == gh[p].att
        IN  /\ Len(a) <= 2
            /\ Len(a) >= 1 =>
                   /\ a[1].force = loc[p].force
                   /\ a[1].ttl = IF a[1].force THEN 0 ELSE 57600
            /\ pc[p] = "retry" => Len(a) = 1 /\ Wanted(a[1])
            /\ pc[p] = "finish" => Len(a) >= 1 /\ (Len(a) = 2 <=> Wanted(a[1]))
            /\ Len(a) = 2 =>
                   /\ Wanted(a[1])
                   /\ a[2].force /\ a[2].ttl = 0 /\ a[2].debug
                   /\ a[2].start = NoDir
            /\ (pc[p] = "ret" /\ Len(a) = 1 /\ Wanted(a[1])) =>
                   ret[p].how = "ioerr" /\ "retry" \in gh[p].ops

\* A call returns after its second attempt succeeded.
C3_Witness ==
    /\ pc[1] = "ret"
    /\ Len(gh[1].att) = 2
    /\ gh[1].att[2].ok
    /\ ret[1].how = "miss"

\* C3 as the specification words it: whenever newLive has returned, a
\* second attempt was made iff the first one asked for it.
C3_AsClaimed ==
    \A p \in Procs :
        (pc[p] = "ret" /\ Len(gh[p].att) >= 1) =>
            (Len(gh[p].att) = 2 <=> Wanted(gh[p].att[1]))

AllSignals == {"safetyerror", "pkgs", "corrupted"}

\* C4 as the specification words it: an attempt whose solver output held
\* all three signals, whatever the exit status, has rename-removed the
\* target, is fatal, and is not followed by a second attempt.
C4_AsClaimed ==
    \A p \in Procs :
        (pc[p] \in {"retry", "finish"} /\ Len(gh[p].att) = 1
            /\ gh[p].last.solver /\ AllSignals \subseteq gh[p].last.flags) =>
                /\ gh[p].last.unsafe
                /\ gh[p].att[1].fatal
                /\ pc[p] # "retry"

\* C5: HasFailures answers true exactly when all three flags are set, and
\* when they are not all set the target folder is as the solver left it.
C5_HasFailures ==
    obsVerdict # "none" =>
        /\ obsVerdict = "failures" <=> AllSignals \subseteq obsMap
        /\ ~(AllSignals \subseteq obsMap) => live = Dir({"bin", "pyc"})

\* safetyerror and corrupted are set, pkgs is not: the answer is false.
C5_Witness ==
    /\ obsVerdict = "clean"
    /\ obsMap = {"safetyerror", "corrupted"}

SignalSeen(sig) ==
    \E i \in 1..Len(obsSeen) : Contains(ToLower(obsSeen[i]), sig)

\* C6: no Write clears a flag, every Write reports the whole chunk as
\* consumed and no error, each flag is set exactly when its signal came in
\* some chunk so far, and HasFailures after the stream answers true exactly
\* when every signal came in some chunk.
C6_Latched ==
    /\ obsPrev \subseteq obsMap
    /\ ~obsRet.err
    /\ obsSeen # << >> => obsRet.n = Len(obsSeen[Len(obsSeen)])
    /\ "safetyerror" \in obsMap <=> SignalSeen(SigSafetyerror)
    /\ "pkgs" \in obsMap <=> SignalSeen(SigPkgs)
    /\ "corrupted" \in obsMap <=> SignalSeen(SigCorrupted)
    /\ obsVerdict # "none" =>
          (obsVerdict = "failures" <=>
              SignalSeen(SigSafetyerror) /\ SignalSeen(SigPkgs) /\ SignalSeen(SigCorrupted))

\* The three signals came in three different chunks and were detected.
C6_Witness ==
    /\ obsVerdict = "failures"
    /\ Len(obsSeen) = 3
    /\ \A i \in 1..3 : Cardinality(WriteFlags(obsSeen[i])) = 1

\* A call without force and without stage-only that came to its reuse
\* check and is about to return.
Plain(p) ==
    /\ pc[p] = "ret"
    /\ "reuse" \in gh[p].ops
    /\ ~loc[p].force
    /\ ~cfg.stageonly

\* C7: a call without force and without stage-only that finds the live
\* folder pristine touches the .meta, returns the live folder and no error,
\* adds exactly 1 to hits, runs no build attempt and no clone, and leaves
\* the live folder, its .meta and the template as they were.
C7_Hit ==
    \A p \in Procs :
        (Plain(p) /\ IsPristine(gh[p].pre.live, gh[p].pre.liveMeta)) =>
            /\ ret[p] = [how |-> "hit", path |-> "live", err |-> FALSE]
            /\ "touch" \in gh[p].ops
            /\ stats.hit = gh[p].pre.stats.hit + 1
            /\ gh[p].att = << >>
            /\ gh[p].ops \cap {"clone", "newlive", "retry", "backup"} = {}
            /\ live = gh[p].pre.live /\ liveMeta = gh[p].pre.liveMeta
            /\ tmpl = gh[p].pre.tmpl /\ tmplMeta = gh[p].pre.tmplMeta

\* A call found a pristine live folder and is returning the hit.
C7_Witness ==
    /\ Plain(1)
    /\ IsPristine(gh[1].pre.live, gh[1].pre.liveMeta)
    /\ ret[1].how = "hit"
    /\ IsDir(tmpl)

\* The live folder is not pristine and the template is.
Dirty(p) ==
    /\ Plain(p)
    /\ ~IsPristine(gh[p].pre.live, gh[p].pre.liveMeta)
    /\ IsPristine(gh[p].pre.tmpl, gh[p].pre.tmplMeta)

\* C8: a call without force and without stage-only that finds the live
\* folder not pristine and the template pristine ends in one of three
\* ways.  CloneFromTo returned true: the call returns the live folder,
\* whose digest is the one recorded for the template, dirty is one more,
\* the template is as it was and no build attempt ran.  A removal failed:
\* the call returns the error and no build attempt ran.  CloneFromTo
\* returned false: the call went on to newLive and dirty is unchanged.
C8_DirtyHit ==
    \A p \in Procs :
        Dirty(p) =>
            \/ /\ ret[p] = [how |-> "dirty", path |-> "live", err |-> FALSE]
               /\ "clone" \in gh[p].ops
               /\ clone.out.ok
               /\ Hexdigest(DigestFor(live).sum) = gh[p].pre.tmplMeta[1]
               /\ stats.dirty = gh[p].pre.stats.dirty + 1
               /\ gh[p].att = << >>
               /\ gh[p].ops \cap {"newlive", "retry", "backup"} = {}
               /\ tmpl = gh[p].pre.tmpl /\ tmplMeta = gh[p].pre.tmplMeta
            \/ /\ ret[p] = [how |-> "ioerr", path |-> "", err |-> TRUE]
               /\ gh[p].att = << >>
               /\ stats.dirty = gh[p].pre.stats.dirty
            \/ /\ {"clone", "newlive"} \subseteq gh[p].ops
               /\ ret[p].how \in {"miss", "fail", "ioerr", "nomamba"}
               /\ stats.dirty = gh[p].pre.stats.dirty

\* A tampered live folder was replaced by a clone of the template.
C8_Witness ==
    /\ Dirty(1)
    /\ IsDir(gh[1].pre.live)
    /\ ret[1].how = "dirty"
    /\ IsPristine(live, liveMeta)

\* C8 as the specification words it: the call always returns the live
\* folder pristine with the template's digest, dirty is one more and no
\* build attempt ran.
C8_AsClaimed ==
    \A p \in Procs :
        Dirty(p) =>
            /\ ret[p] = [how |-> "dirty", path |-> "live", err |-> FALSE]
            /\ IsPristine(live, liveMeta)
            /\ liveMeta = gh[p].pre.tmplMeta
            /\ stats.dirty = gh[p].pre.stats.dirty + 1
            /\ gh[p].att = << >>
            /\ "newlive" \notin gh[p].ops

\* C9 as the specification words it: CloneFromTo returns true exactly when
\* the source is pristine and the clone's digest is the one recorded for
\* the source, and then the target is pristine with the source's .meta
\* content.
C9_AsClaimed ==
    clone.ran =>
        /\ clone.out.ok <=>
              /\ IsPristine(clone.source, clone.sourceMeta)
              /\ clone.out.cloned
              /\ Hexdigest(clone.out.sum) = metaLoad(clone.sourceMeta).text
        /\ clone.out.ok =>
              /\ IsPristine(clone.out.target, clone.out.targetMeta)
              /\ clone.out.targetMeta = clone.sourceMeta

\* C10: when CloneFromTo returns false it has written no .meta for the
\* target; when it returns false without an error the target is absent or
\* an empty directory and, if the target was a directory when the call
\* began, target.meta does not exist; when the clone's digest did not
\* match and the cleanup worked, the cloned tree is gone.
C10_Failure ==
    (clone.ran /\ ~clone.out.ok) =>
        /\ clone.out.targetMeta \in {NoMeta, clone.targetMeta}
        /\ ~clone.out.err =>
              /\ clone.out.target \in {NoDir, Dir({})}
              /\ IsDir(clone.target) => clone.out.targetMeta = NoMeta
        /\ (clone.out.cloned /\ ~clone.out.err) => clone.out.target = NoDir

\* The copy lost a file, the digest did not match, the clone was removed.
C10_Witness ==
    /\ clone.ran
    /\ ~clone.out.ok /\ ~clone.out.err
    /\ clone.out.cloned
    /\ IsDir(clone.target)
    /\ clone.out.target = NoDir

\* C10 as the specification words it: whenever CloneFromTo returns false,
\* target.meta does not exist and the target is absent or empty.
C10_AsClaimed ==
    (clone.ran /\ ~clone.out.ok) =>
        /\ clone.out.targetMeta = NoMeta
        /\ clone.out.target \in {NoDir, Dir({})}

\* The solver stage of an attempt went through: the solver ended with 0
\* and the observer found no failure.
Solved(r) == r.solver /\ r.code = 0 /\ ~r.unsafe

\* C11: in an attempt the installer is invoked exactly when the solver
\* stage went through and the requirements file exists and is not empty;
\* with a missing or empty file the installer is not invoked, pipUsed stays
\* false and the attempt goes on to the post-install stage.
C11_Pip ==
    \A p \in Procs :
        Len(gh[p].att) >= 1 =>
            LET r == gh[p].last
            IN  /\ r.pip <=> (Solved(r) /\ r.req = "some")
                /\ r.pipUsed => r.pip
                /\ (Solved(r) /\ r.req \in {"missing", "empty"}) =>
                       /\ ~r.pip /\ ~r.pipUsed
                       /\ r.postFailed # 0 \/ r.posts = [i \in 1..r.declared |-> i]

\* An attempt with an empty requirements file succeeded without the
\* installer, after its post-install commands.
C11_Witness ==
    /\ pc[1] = "finish"
    /\ loc[1].success
    /\ gh[1].last.req = "empty"
    /\ ~gh[1].last.pip
    /\ Len(gh[1].last.posts) = 2

\* The installer was invoked in the attempt and failed.
PipFailed(r) == r.pip /\ ~r.pipUsed

\* C12: an attempt whose installer failed is failed and not fatal, and ran
\* no post-install command, no activation, wrote no identity marker and no
\* .meta; when it was the first attempt, newLive goes to its second try
\* exactly when force was not requested, and the second attempt is then made
\* unless the renewed removal of the target folder fails.
C12_PipFailure ==
    \A p \in Procs :
        (Len(gh[p].att) >= 1 /\ PipFailed(gh[p].last)) =>
            LET r == gh[p].last
                a == gh[p].att
            IN  /\ ~a[Len(a)].ok /\ ~a[Len(a)].fatal
                /\ r.posts = << >> /\ r.postFailed = 0
                /\ ~r.act /\ ~r.marker /\ ~r.meta
                /\ r.plan = "removed"
                /\ (Len(a) = 1 /\ pc[p] \in {"retry", "finish"}) =>
                       (pc[p] = "retry" <=> ~loc[p].force)
                /\ (Len(a) = 1 /\ pc[p] = "ret" /\ ~loc[p].force) =>
                       ret[p].how = "ioerr" /\ "retry" \in gh[p].ops

\* The installer failed in the first attempt and the second try is next.
C12_Witness ==
    /\ pc[1] = "retry"
    /\ PipFailed(gh[1].last)
    /\ gh[1].last.solver

\* C12 as the specification words it: after an installer failure without
\* force, newLive does not return before its second attempt.
C12_AsClaimed ==
    \A p \in Procs :
        (pc[p] = "ret" /\ Len(gh[p].att) >= 1 /\ PipFailed(gh[p].last)
            /\ ~loc[p].force) => Len(gh[p].att) = 2

FailedForGood(p) ==
    LET a == gh[p].att
    IN  /\ pc[p] = "ret"
        /\ Len(a) >= 1
        /\ ~a[Len(a)].ok
        /\ Len(a) = 2 \/ a[1].force \/ a[1].fatal

\* C14: when the build failed for good, NewEnvironment returns no path and
\* the error "Could not create environment." (the return called "fail"),
\* failures is one more than when the call began, misses is unchanged, and
\* no backup to the template was made: the template is as it was, or was
\* removed by the clone attempt before the build.
C14_BuildFailed ==
    \A p \in Procs :
        FailedForGood(p) =>
            /\ ret[p] = [how |-> "fail", path |-> "", err |-> TRUE]
            /\ stats.failures = gh[p].pre.stats.failures + 1
            /\ stats.miss = gh[p].pre.stats.miss
            /\ stats.hit = gh[p].pre.stats.hit
            /\ stats.dirty = gh[p].pre.stats.dirty
            /\ "backup" \notin gh[p].ops
            /\ tmpl \in {gh[p].pre.tmpl, NoDir, Dir({})}
            /\ tmplMeta \in {gh[p].pre.tmplMeta, NoMeta}
            /\ IsPristine(tmpl, tmplMeta) => 
                   tmpl = gh[p].pre.tmpl /\ tmplMeta = gh[p].pre.tmplMeta

\* Both attempts failed while a template was there.
C14_Witness ==
    /\ FailedForGood(1)
    /\ Len(gh[1].att) = 2
    /\ ret[1].how = "fail"
    /\ IsDir(gh[1].pre.tmpl)

\* The last CloneFromTo found its source not pristine (line 534).
FoundDirty == clone.ran /\ clone.out.at = "dirty"

Missed(p) == pc[p] = "ret" /\ ret[p].how = "miss"

\* C16: with live-only a call that built the environment returns the live
\* folder and leaves the template folder and its .meta as the call found
\* them.
C16_LiveOnly ==
    \A p \in Procs :
        (Missed(p) /\ cfg.liveonly) =>
            /\ ret[p].path = "live" /\ ~ret[p].err
            /\ tmpl = gh[p].pre.tmpl
            /\ tmplMeta = gh[p].pre.tmplMeta
            /\ "backup" \notin gh[p].ops

\* A live-only call built the environment beside an existing template.
C16_Witness ==
    \E p \in Procs :
        /\ Missed(p) /\ cfg.liveonly /\ ~cfg.stageonly
        /\ IsDir(gh[p].pre.tmpl) /\ IsFile(gh[p].pre.tmplMeta)
        /\ "newlive" \in gh[p].ops

NoMetaWritten ==
    /\ liveMeta' # liveMeta => liveMeta' = NoMeta
    /\ tmplMeta' # tmplMeta => tmplMeta' = NoMeta

\* With stage-only a call is never a hit, never clones the template to the
\* live folder and is at newLive right after the reuse check.
StraightToBuild ==
    \A p \in Procs :
        /\ pc[p] # "clone"
        /\ "clone" \notin gh[p].ops /\ "touch" \notin gh[p].ops
        /\ ret[p].how \notin {"hit", "dirty"}
        /\ "reuse" \in gh[p].ops => (pc[p] = "build" \/ "newlive" \in gh[p].ops)
        /\ stats.hit = gh[p].pre.stats.hit \/ pc[p] = "idle"
        /\ stats.dirty = gh[p].pre.stats.dirty \/ pc[p] = "idle"

\* C18: with stage-only set no step of NewEnvironment writes a .meta, no
\* call reports a hit from the live folder or from the template, and the
\* template-to-live clone is never attempted: after the reuse check the call
\* goes to the build.
C18_StageOnly ==
    /\ [](cfg.stageonly => StraightToBuild)
    /\ [][cfg.stageonly => NoMetaWritten]_vars

\* A stage-only call without force found a pristine live folder and a
\* pristine template, and built the environment all the same.
C18_Witness ==
    \E p \in Procs :
        /\ cfg.stageonly /\ ~loc[p].force
        /\ IsPristine(gh[p].pre.live, gh[p].pre.liveMeta)
        /\ IsPristine(gh[p].pre.tmpl, gh[p].pre.tmplMeta)
        /\ Missed(p)
        /\ IsDir(live) /\ liveMeta = NoMeta

\* C19 as the specification words it: with no-build set no call reaches
\* newLive (the solver and the installer), and no call returns a newly built
\* live folder.
C19_AsClaimed ==
    \A p \in Procs :
        cfg.nobuild =>
            /\ pc[p] \notin {"build", "retry", "finish"}
            /\ gh[p].ops \cap {"newlive", "retry"} = {}
            /\ gh[p].att = << >>
            /\ ret[p].how # "miss"

\* C20 as the specification words it: a call does not stay blocked in Locker
\* beyond the maximum wait it asked for.
C20_AsClaimed ==
    \A p \in Procs : pc[p] = "flock" => loc[p].waited <= LockWaitLimit

\* Locker returned an error to the call of p.
LockerFailed(p) == pc[p] = "ret" /\ ret[p].how = "lockerr"

\* C21 as the specification words it: a call that returns the error of
\* Locker has changed no counter, no folder and no .meta, has left no PID
\* marker, and the lock file is as it was before the call.
C21_AsClaimed ==
    \A p \in Procs :
        LockerFailed(p) =>
            /\ ret[p].err /\ ret[p].path = ""
            /\ stats = gh[p].pre.stats
            /\ live = gh[p].pre.live /\ liveMeta = gh[p].pre.liveMeta
            /\ tmpl = gh[p].pre.tmpl /\ tmplMeta = gh[p].pre.tmplMeta
            /\ markers = gh[p].pre.markers
            /\ lockfile = gh[p].pre.lockfile

\* The acquisitions of p that Locker returned a file lock for.
Acquisitions(p) == { i \in 1..Len(lk[p].held) : lk[p].held[i].kind = "real" }

\* The acquisition i of p holds the lock.
Holds(p, i) == lk[p].held[i].open /\ flock = p

\* Release of the acquisition i of p has unlocked and closed the file and
\* has not yet removed the marker.
Unmarking(p, i) == lk[p].at = "unmark" /\ lk[p].which = i

\* Every marker is the marker of an acquisition that holds the lock, or
\* whose Release is on its way to os.Remove, or whose os.Remove failed.
MarkersOwned ==
    \A m \in markers :
        \E p \in Procs : \E i \in Acquisitions(p) :
            /\ lk[p].held[i].marker = m
            /\ Holds(p, i) \/ Unmarking(p, i) \/ lk[p].held[i].stuck

\* Once every Release has returned without a failed os.Remove, no marker
\* is left.
MarkersGone ==
    (\A p \in Procs :
        /\ lk[p].at = "out"
        /\ \A i \in Acquisitions(p) : ~lk[p].held[i].open /\ ~lk[p].held[i].stuck)
    => markers = {}

\* A marker is made only by a process that has just got the lock.
MarkerMade ==
    \A m \in markers' \ markers :
        \E p \in Procs :
            /\ lk[p].at = "flock" /\ flock' = p
            /\ m = lockPidFilename(p, now)

\* C22: Locker makes a PID marker only after it got the OS lock; every
\* marker that exists belongs to an acquisition that holds the lock, or
\* that Release has already unlocked and is about to remove the marker of,
\* or whose marker Release could not remove; and once every holder has
\* released with no failed removal, no marker remains.
C22_Markers ==
    /\ [](MarkersOwned /\ MarkersGone)
    /\ [][MarkerMade]_vars

\* The marker of a released lock is still there while the next holder has
\* the lock and its own marker.
C22_Witness ==
    \E p \in Procs, q \in Procs :
        /\ p # q
        /\ \E i \in Acquisitions(p) :
              Unmarking(p, i) /\ lk[p].held[i].marker \in markers
        /\ \E j \in Acquisitions(q) :
              Holds(q, j) /\ lk[q].held[j].marker \in markers

\* C22 as the specification words it: every marker that exists is the
\* marker of an acquisition that holds the lock.
C22_AsClaimed ==
    \A m \in markers :
        \E p \in Procs : \E i \in Acquisitions(p) :
            lk[p].held[i].marker = m /\ Holds(p, i)

\* The step is the first part of a Release of p on a file lock that was
\* released before: the unlock and the close.
ReleasedAgain(p) ==
    /\ lk[p].at = "out" /\ lk'[p].at = "unmark"
    /\ lk'[p].again

\* The step is the second part of such a Release: the removal of the
\* marker.
UnmarkedAgain(p) ==
    /\ lk[p].at = "unmark" /\ lk'[p].at = "out"
    /\ lk[p].again

\* The markers of the acquisitions that hold the lock, but for the
\* acquisition i of p.
OtherMarkers(p, i) ==
    { lk[q].held[j].marker :
        <<q, j>> \in { x \in Procs \X (1..MaxLockerCalls) :
                         /\ x[2] \in Acquisitions(x[1])
                         /\ x # <<p, i>>
                         /\ Holds(x[1], x[2]) } }

\* C23 as the specification words it: a second Release of the same file
\* lock returns no error, leaves the holder of the lock as it is and removes
\* no marker of another acquisition.
C23_AsClaimed ==
    [][\A p \in Procs :
          /\ ReleasedAgain(p) => (~lk'[p].err /\ flock' = flock /\ markers' = markers)
          /\ UnmarkedAgain(p) =>
                /\ flock' = flock
                /\ (OtherMarkers(p, lk[p].which) \cap markers) \subseteq markers']_vars

RECURSIVE Backoff(_)
\* The delay before the k-th message: 5, 15, 45, ... seconds.
Backoff(k) == IF k = 1 THEN FirstDelay ELSE DelayFactor * Backoff(k - 1)

\* C24: the messages of a waiting caller are numbered 1, 2, 3, ... and the
\* k-th is logged no sooner than 5*3^(k-1) seconds after the one before it
\* (after the start of the notifier for the first).
C24_Backoff ==
    /\ Len(notif.log) = notif.counter
    /\ \A k \in 1..Len(notif.log) :
          /\ notif.log[k].n = k
          /\ notif.log[k].gap >= Backoff(k)

\* Three messages were logged, after 5, 15 and 45 seconds.
C24_Witness ==
    /\ Len(notif.log) = 3
    /\ notif.log[1].gap = 5 /\ notif.log[2].gap = 15 /\ notif.log[3].gap = 45

\* The step is a call of Locker by p.
LockerCalled(p) == lk'[p].calls = lk[p].calls + 1

\* C25: in lockless mode every call of Locker returns a no-op releaser at
\* once and without an error, whoever holds the lock; neither that call nor
\* any Release of such a releaser changes the lock file, the holder of the
\* OS lock or the PID markers, and the process is never left waiting.
C25_Lockless ==
    /\ [](\A p \in Procs :
            lk[p].lockless =>
                /\ lk[p].at = "out"
                /\ \A i \in 1..Len(lk[p].held) : lk[p].held[i].kind = "fake")
    /\ [][\A p \in Procs :
            (lk[p].lockless /\ lk'[p] # lk[p]) =>
                /\ flock' = flock /\ markers' = markers /\ lockfile' = lockfile
                /\ LockerCalled(p) =>
                      /\ ~lk'[p].err
                      /\ lk'[p].held = Append(lk[p].held, Fake)]_vars

\* A lockless process got two releasers and has released one of them twice
\* while another process holds the lock.
C25_Witness ==
    \E p \in Procs, q \in Procs :
        /\ p # q
        /\ lk[p].lockless /\ Len(lk[p].held) = 2
        /\ lk[p].held[1].releases = 2
        /\ \E j \in Acquisitions(q) : Holds(q, j)
        /\ lockfile = Written(Truncated, lockPidFilename(q, now))

\* renameRemove has returned.
Removed == rm.at = "done"

\* The location changes only by losing its whole directory to the random
\* name; files are deleted only there, with nothing left at the location;
\* the .meta goes after the directory is deleted.
RenamedFirst ==
    /\ rm'.location # rm.location =>
          (rm'.location = NoDir /\ rm'.random = rm.location)
    /\ rm'.random.files # rm.random.files => ~IsDir(rm'.location)
    /\ rm'.meta # rm.meta => ~IsDir(rm'.random)

\* C26: renameRemove on a directory takes the whole directory away from
\* the location by the rename and deletes it only under the random name;
\* when it returns nil, neither the directory nor its .meta exists; when
\* the rename fails, the directory and the .meta are as they were and the
\* error is returned; on a location that is no directory nothing is changed
\* and nil is returned.  The steps give what renameRemove as a whole gives.
C26_RenameRemove ==
    /\ [](Removed =>
            /\ IsDir(rm.location0) /\ ~rm.err =>
                  /\ ~IsDir(rm.location) /\ ~IsDir(rm.random)
                  /\ ~IsFile(rm.meta)
            /\ rm.fs = "rename" =>
                  /\ rm.err
                  /\ rm.location = rm.location0 /\ rm.meta = rm.meta0
            /\ ~IsDir(rm.location0) =>
                  /\ ~rm.err
                  /\ rm.location = rm.location0 /\ rm.meta = rm.meta0
            /\ [folder |-> rm.location, meta |-> rm.meta, err |-> rm.err]
                  = renameRemove(rm.location0, rm.meta0, rm.fs))
    /\ [][RenamedFirst]_vars

\* A built environment and its .meta were removed.
C26_Witness ==
    /\ Removed /\ ~rm.err
    /\ rm.location0 = Built /\ rm.meta0 = BuiltMeta
    /\ rm.location = NoDir /\ rm.random = NoDir /\ rm.meta = NoMeta

\* cloneFolder has heard from every worker (lines 592-594).
Copied == cp.source # << >> /\ cp.done = Workers

\* The entries copyFolder has sent to the workers.
Dispatched == { n \in Names : cp.handed[n] > 0 }

\* C27: the copier is never invoked twice on an entry and never on
\* __pycache__, and a link is only ever made with the text of its source.
\* When the clone is over, every dispatched entry that is no symbolic link
\* went to the copier once and has no link; every dispatched symbolic link
\* whose os.Readlink worked never went to the copier and has a link of the
\* same text unless os.Symlink failed; one whose os.Readlink failed went to
\* the copier once.
C27_Symlinks ==
    /\ \A n \in DOMAIN cp.source :
          /\ cp.copied[n] <= 1
          /\ cp.linked[n] \in {NoLink, cp.source[n].text}
          /\ cp.copied[n] = 0 \/ cp.linked[n] = NoLink
    /\ Copied =>
          /\ cp.copied["pyc"] = 0 /\ cp.linked["pyc"] = NoLink
          /\ \A n \in Dispatched :
                IF cp.source[n].kind # "link" THEN
                    cp.copied[n] = 1 /\ cp.linked[n] = NoLink
                ELSE IF n \in cp.misread THEN
                    cp.copied[n] = 1 /\ cp.linked[n] = NoLink
                ELSE IF n \in cp.unlinked THEN
                    cp.copied[n] = 0 /\ cp.linked[n] = NoLink
                ELSE
                    cp.copied[n] = 0 /\ cp.linked[n] = cp.source[n].text

\* A file and a symbolic link were cloned: one copier call, one link.
C27_Witness ==
    /\ Copied
    /\ cp.source["a"].kind = "file" /\ cp.copied["a"] = 1
    /\ cp.source["b"] = [kind |-> "link", text |-> "t2"]
    /\ cp.linked["b"] = "t2" /\ cp.copied["b"] = 0

\* C27 as the specification words it: every dispatched symbolic link ends
\* as a link of the same text that the copier never saw, every other
\* dispatched entry went to the copier once.
C27_AsClaimed ==
    Copied =>
        \A n \in Dispatched :
            IF cp.source[n].kind = "link"
            THEN cp.copied[n] = 0 /\ cp.linked[n] = cp.source[n].text
            ELSE cp.copied[n] = 1

\* What the call of p has added to a counter so far.
Added(p, counter) == stats[counter] - gh[p].pre.stats[counter]

\* The call of p got the file lock and has returned from its body.
ReturnedLocked(p) == pc[p] = "ret" /\ loc[p].locked = "real"

\* C28 as the specification words it: a call that got the lock and returned
\* has added 1 to the requests and 1 to exactly one of hits, dirty, misses
\* and failures, the one of the way it returned.
C28_AsClaimed ==
    \A p \in Procs :
        ReturnedLocked(p) =>
            /\ Added(p, "request") = 1
            /\ Added(p, "hit") + Added(p, "dirty") + Added(p, "miss")
                   + Added(p, "failures") = 1
            /\ Added(p, "hit") = (IF ret[p].how = "hit" THEN 1 ELSE 0)
            /\ Added(p, "dirty") = (IF ret[p].how = "dirty" THEN 1 ELSE 0)
            /\ Added(p, "miss") = (IF ret[p].how = "miss" THEN 1 ELSE 0)
            /\ Added(p, "failures") = (IF ret[p].err THEN 1 ELSE 0)

\* The call of p is between the read of the counters and the write of
\* stats.env.request (lines 367-384).
Counting(p) == pc[p] = "config"

\* With the file lock, the call that is about to write the request counter
\* holds the lock, and the value it read is still the stored one.
ReadIsFresh ==
    ~cfg.lockless =>
        \A p \in Procs :
            Counting(p) => flock = p /\ loc[p].requests = stats.request + 1

\* With the file lock, a step changes the counters only when the holder of
\* the lock takes it; the request counter is raised by 1 by the step that
\* leaves line 384 and by no other; and a call reaches that line once,
\* after it got the lock, and cannot return with the lock without it.
CountedOnce ==
    ~cfg.lockless =>
        /\ stats' # stats =>
               /\ flock # NoProc
               /\ loc[flock].locked = "real"
               /\ pc'[flock] # pc[flock]
        /\ \A p \in Procs :
               /\ (Counting(p) /\ ~Counting(p)') => stats'.request = stats.request + 1
               /\ (~Counting(p) /\ Counting(p)') => pc[p] = "stats" /\ loc[p].locked = "real"
               /\ (pc[p] = "stats" /\ pc'[p] # "stats") => Counting(p)'
        /\ (\A p \in Procs : Counting(p) => Counting(p)') => stats'.request = stats.request

\* C29: with the file lock, concurrent calls that got the lock raise
\* stats.env.request by 1 each: the counter is read and written by the
\* holder of the lock only, so no increment is lost.
C29_Requests == []ReadIsFresh /\ [][CountedOnce]_vars

\* Two calls were made with the file lock and the second has raised the
\* request counter to 2 and is about to release the lock.
C29_Witness ==
    /\ ~cfg.lockless
    /\ ncalls = 2
    /\ stats.request = 2
    /\ \E p \in Procs :
          /\ pc[p] = "ret"
          /\ flock = p
          /\ loc[p].locked = "real"
          /\ loc[p].requests = 2

\* The call of p has made a build attempt; the last one is on record.
Attempted(p) == Len(gh[p].att) >= 1

\* The last attempt came to the os.Rename of the plan file (line 284): the
\* solver and every stage up to the activation went through.
CameToRename(r) ==
    /\ r.solver /\ r.code = 0 /\ ~r.unsafe
    /\ (r.pip => r.pipUsed)
    /\ r.postFailed = 0 /\ Len(r.posts) = r.declared

ForcedReturn(p) == pc[p] = "ret" /\ loc[p].force

\* C31: a forced call never returns as a hit or as a dirty hit and never
\* clones the template; it makes at most one build attempt and no retry,
\* the attempt runs with force and repodata TTL 0 on a removed live folder
\* and calls the solver unless the plan file could not be opened; and it
\* makes no attempt only when it returns an error before the build.
C31_Forced ==
    \A p \in Procs :
        /\ loc[p].force => pc[p] \notin {"clone", "retry"}
        /\ ForcedReturn(p) =>
               LET a == gh[p].att
                   r == gh[p].last
               IN  /\ ret[p].how \notin {"hit", "dirty"}
                   /\ gh[p].ops \cap {"clone", "retry"} = {}
                   /\ Len(a) <= 1
                   /\ Len(a) = 0 => ret[p].err /\ ret[p].how \notin {"miss", "fail"}
                   /\ ret[p].how \in {"miss", "fail"} => Len(a) = 1
                   /\ Len(a) = 1 =>
                          /\ a[1].force /\ a[1].ttl = TtlForced
                          /\ a[1].start = NoDir
                          /\ r.plan # "none" => r.solver

\* A forced call on a home whose live folder and template were pristine
\* has built the environment anew.
C31_Witness ==
    \E p \in Procs :
        /\ ForcedReturn(p)
        /\ ret[p].how = "miss"
        /\ "touch" \in gh[p].ops
        /\ IsPristine(tmpl, tmplMeta)
        /\ Len(gh[p].att) = 1
        /\ gh[p].last.solver

\* C31 as the specification words it: every forced call makes exactly one
\* attempt, in which the solver is called with TTL 0.
C31_AsClaimed ==
    \A p \in Procs :
        ForcedReturn(p) =>
            /\ ret[p].how \notin {"hit", "dirty"}
            /\ Len(gh[p].att) = 1
            /\ gh[p].att[1].ttl = TtlForced
            /\ gh[p].last.solver

\* A worker is handling the entry n.
Handling(n) == \E w \in Workers : cp.task[w] = n

\* C32: cloneFolder with at least one worker terminates: the queue is
\* closed and every worker's done signal is received, once each; a request
\* a worker has taken is handled; no worker reports done before the queue
\* is closed or while it has a task; and when the last done signal has been
\* received nothing is left to send and no worker has a task.
C32_Terminates ==
    /\ <>(cp.closed /\ Copied)
    /\ \A n \in Names : Handling(n) ~> ~Handling(n)
    /\ [](\A w \in cp.done : cp.closed /\ cp.task[w] = NoTask)
    /\ [](Copied => /\ cp.closed /\ cp.todo = {}
                    /\ \A w \in Workers : cp.task[w] = NoTask)

\* A clone in which both directories were listed: the two files went
\* through the queue and every worker is done.
C32_Witness ==
    /\ Copied /\ cp.closed
    /\ cp.unread = {}
    /\ cp.handed["a"] = 1 /\ cp.handed["b"] = 1

\* The entries that are named __pycache__ or lie beneath such a directory.
Cached == {"pyc", "c"}

\* The directories above an entry that is not in Cached.
Above(n) == IF n = "a" THEN {"root"} ELSE {"root", "sub"}

\* C33: no entry is sent to the workers twice and no two workers have the
\* same task; what is named __pycache__ or lies beneath is never sent, never
\* copied, never linked, and the directory __pycache__ is never made in the
\* target; and when the clone is over every other entry that is no
\* directory was sent once if the directories above it could be listed,
\* and not at all if one of them could not.
C33_Handed ==
    /\ \A n \in DOMAIN cp.handed :
          /\ cp.handed[n] <= 1
          /\ Handling(n) => cp.handed[n] = 1
          /\ cp.copied[n] <= cp.handed[n]
          /\ cp.linked[n] # NoLink => cp.handed[n] = 1
    /\ \A w \in DOMAIN cp.task, v \in DOMAIN cp.task :
          (w # v /\ cp.task[w] # NoTask) => cp.task[w] # cp.task[v]
    /\ cp.source # << >> =>
          /\ \A n \in Cached : cp.handed[n] = 0
          /\ "cache" \notin cp.made
          /\ Copied =>
                \A n \in Names \ Cached :
                    cp.handed[n] = (IF Above(n) \cap cp.unread = {} THEN 1 ELSE 0)

\* A clone of the whole tree: a and b were sent once, the __pycache__
\* entries never, and the two directories were made.
C33_Witness ==
    /\ Copied
    /\ cp.made = {"root", "sub"} /\ cp.unread = {}
    /\ cp.handed = [n \in Names |-> IF n \in Cached THEN 0 ELSE 1]
    /\ cp.copied["a"] + cp.copied["b"] >= 1

\* C33 as the specification words it: when the clone is over every entry
\* outside __pycache__ was sent once.
C33_AsClaimed ==
    Copied =>
        /\ \A n \in Names \ Cached : cp.handed[n] = 1
        /\ \A n \in Cached : cp.handed[n] = 0

\* The function returned by LockWaitMessage was called and has returned.
Cancelled == notif.cancel = "returned"

\* A step in which the function returned by LockWaitMessage is called.
CancelCalled == notif.cancel = "no" /\ notif'.cancel # "no"

\* C34: the function returned by LockWaitMessage, called once when Locker
\* has returned with or without an error, returns; the notifier has then
\* ended, and no message is logged from then on.  It is never called a
\* second time.
C34_Cancel ==
    /\ <>Cancelled
    /\ [](Cancelled => ~notif.on /\ ~notif.busy)
    /\ [][Cancelled => /\ notif'.log = notif.log
                       /\ notif'.counter = notif.counter
                       /\ Cancelled']_vars
    /\ [][notif'.cancel # notif.cancel =>
              \/ CancelCalled /\ notif'.cancel = "sending"
              \/ notif.cancel = "sending" /\ Cancelled']_vars

\* Locker failed after the first message; the notifier was ended before
\* the second.
C34_Witness ==
    /\ Cancelled /\ notif.lockerr
    /\ Len(notif.log) = 1
    /\ ~notif.on

\* The call of p is at a return statement that gives the live folder and
\* no error.
ReturnsFolder(p) == pc[p] = "ret" /\ ~ret[p].err

\* C35 as the specification words it: a folder returned without an error
\* exists and, unless stage-only is set, is pristine against its .meta.
C35_AsClaimed ==
    \A p \in Procs :
        ReturnsFolder(p) =>
            /\ ret[p].path = "live"
            /\ IsDir(live)
            /\ ~cfg.stageonly => IsPristine(live, liveMeta)

\* The .meta that goes with a folder.
MetaOf(folder) == <<Hexdigest(DigestFor(folder).sum)>>

\* The step writes a live.meta that was not there before.
MetaWritten == liveMeta' # liveMeta /\ liveMeta' # NoMeta

\* The step is the end of a build attempt of p that newLiveInternal
\* reports as a success.
BuiltNow(p) == pc[p] \in {"build", "retry"} /\ pc'[p] = "finish" /\ loc'[p].success

\* The step is a clone of the template by p that CloneFromTo reports as
\* verified.
ClonedNow(p) == pc[p] = "clone" /\ pc'[p] = "ret" /\ ret'[p].how = "dirty"

\* The call of p has returned "Could not create environment."
BuildFailed(p) == pc[p] = "ret" /\ ret[p].how = "fail"

\* C36: a live.meta is written only at the end of a build attempt that
\* succeeded, with the digest of the folder as built, or by a clone that was
\* verified, with the .meta of the template.  A call whose build failed has
\* written none: the live folder it leaves has no .meta, or the one that
\* was there before the call without a folder, and only such a stale .meta
\* can match what the failed attempt left.
C36_MetaLast ==
    /\ [][MetaWritten =>
             \E p \in Procs :
                 \/ BuiltNow(p) /\ ~cfg.stageonly /\ liveMeta' = MetaOf(live')
                 \/ ClonedNow(p) /\ liveMeta' = tmplMeta /\ live' = cloneFolder(tmpl, {})]_vars
    /\ [](\A p \in Procs :
             BuildFailed(p) =>
                 /\ Len(gh[p].att) >= 1 /\ ~gh[p].att[Len(gh[p].att)].ok
                 /\ liveMeta \in {NoMeta, gh[p].pre.liveMeta}
                 /\ liveMeta # NoMeta => ~IsDir(gh[p].pre.live))

\* The build failed on a home that had a live folder with its .meta: the
\* folder the attempt left has no .meta.
C36_Witness ==
    \E p \in Procs :
        /\ BuildFailed(p)
        /\ IsDir(gh[p].pre.live) /\ gh[p].pre.liveMeta # NoMeta
        /\ IsDir(live) /\ liveMeta = NoMeta

\* C36 as the specification words it: the live folder a failed build
\* leaves does not match its .meta.
C36_AsClaimed ==
    \A p \in Procs : BuildFailed(p) => ~IsPristine(live, liveMeta)

\* C37 as the specification words it: a call to which Locker returned an
\* error does not hold the OS lock.
C37_AsClaimed ==
    \A p \in Procs : LockerFailed(p) => flock # p

\* The call of p is blocked in syscall.Flock.
Waiting(p) == pc[p] = "flock"

\* The call of p waits for micromamba, pip or the copy of a folder.
External(p) == pc[p] \in {"clone", "build", "retry", "finish"}

RECURSIVE Joined(_)
\* The whole output of the solver: the chunks one after the other.
Joined(chunks) ==
    IF chunks = << >> THEN << >> ELSE Head(chunks) \o Joined(Tail(chunks))

\* C39 as the specification words it: once the whole output went through
\* the tee, the flags set are the signals that occur in the lower-cased
\* output as a whole, however it was cut into Write calls.
C39_AsClaimed ==
    obsRest = << >> => obsMap = WriteFlags(Joined(obsSeen))

\* C40 as the specification words it: UserHomeIdentity returns a string
\* of exactly seven characters, whatever the space, the home directory
\* and the value of its hash are.
C40_AsClaimed ==
    ident.at = "done" /\ ident.hash # << >> =>
        ~ident.out.panic /\ Len(ident.out.text) = IdentityLength

=============================================================================
